---- MODULE Spec2Model ----
(***************************************************************************)
(* Candidate Evaluation & Promotion Engine of RL_LLM.                      *)
(*                                                                         *)
(* The layers modelled, each with its own specification:                   *)
(*   SpecExec    validation/test_runner.py  _execute_test_script and       *)
(*               _parse_test_output (the Isolated Executor)                *)
(*   SpecHarness the program text produced by _generate_test_script, run   *)
(*               twice under two ambient states (the Harness Generator)    *)
(*   SpecSelect  an evaluation round: generate_config_variants, then       *)
(*               AgentManager.test_multiple_agents or                      *)
(*               ConfigManager.test_multiple_configs (Candidate Selector)  *)
(*   SpecPromote save_best_agent / save_best_config with backup, restore   *)
(*               and validate_agent_code (Version Store, Promotion Gate)   *)
(*   SpecAdvise  llm_modifier.py: the candidates extracted from the answer *)
(*               of the model and handed to the selector                   *)
(*   SpecEpsilon RL/agent.py: epsilon across the calls of decay_epsilon    *)
(*   SpecValidate validation/param_validation.py: validate_parameter       *)
(*   SpecDriver  llm_rl_loop.py: the training cycles, the Agent class they *)
(*               construct, and reload_agent_module                        *)
(*   SpecReset   env.py: GridWorld.reset                                   *)
(*   SpecVariants config/config_manager.py: generate_config_variants on    *)
(*               every base configuration within the bounds                *)
(* SpecSelect and SpecPromote share the working directory: d_files,        *)
(* d_ctime, d_clock.                                                       *)
(*                                                                         *)
(* Numbers: every score, reward and metric is an integer number of         *)
(* thousandths (1060 is 1.060), the resolution of the "%.3f" wire format.  *)
(* Text: a string is a sequence of tokens; a token is a record             *)
(* [k |-> kind, v |-> value] where kind "num" is a decimal numeral of      *)
(* value v/1000 and every other kind is a fixed piece of text.             *)
(***************************************************************************)
EXTENDS Integers, Sequences, FiniteSets, TLC

VARIABLES
    x_pc,       \* _execute_test_script: "idle", "start", "written", "returned", "raised"
    x_child,    \* what the child process did (NoChild before it ran)
    x_tmp,      \* TRUE while the temporary program file exists
    x_ret,      \* the mapping returned to the caller (NoRet before the return)
    \* the generated program (harness), executed twice
    h_script,   \* what _generate_test_script embedded: test_config, agent_file, num_episodes
    h_amb,      \* ambient state of the two executions: live config.json of each, env.py
    h_run,      \* the execution in progress: 1 or 2
    h_pc,       \* position in the program text
    h_flat,     \* flat_config of the program (None before config setup)
    h_agent,    \* the Agent object (None before construction)
    h_stdout,   \* text written to standard output so far
    h_code,     \* exit status (-1 while running)
    h_fail,     \* the statement that raised ("none" if none did)
    h_returns,  \* returns: the list of episode returns
    h_ep,       \* the episode in progress: ep_return, steps, done
    h_tape,     \* what the generators seeded with 42 produced, step by step
    h_k,        \* number of tape entries this execution has consumed
    h_out,      \* the outcome of each finished execution
    \* the Candidate Selector: test_multiple_agents / test_multiple_configs
    s_track,    \* "agent" or "config"
    s_n,        \* number of candidates supplied
    s_pc,       \* "generate", "start", "loop", "returned", "raised"
    s_i,        \* loop index (0-based, as enumerate gives it)
    s_original, \* original_metrics
    s_best,     \* best_metrics
    s_best_index, \* best_index
    s_log,      \* what the round reported, one entry per loop iteration
    s_ret,      \* the pair returned: index and metrics
    s_heap,     \* the configuration objects in memory, by reference
    \* the working directory of the program
    d_files,    \* path -> None (no such file) or Some(text of the file)
    d_ctime,    \* path of a history entry -> the instant of its last write
    d_clock,    \* the wall clock: sec (second shown by datetime.now), tick (instant)
    \* the Promotion Gate: save_best_agent / save_best_config
    p_track,    \* "agent" or "config"
    p_pc,       \* "ready", "backup", "write", "validate", "restore", "returned"
    p_calls,    \* number of calls made so far
    p_index,    \* best_index of the call
    p_best,     \* Some(agent_codes[best_index]) / Some(config_variants[best_index])
    p_start,    \* the live artifact when the call started
    p_events,   \* what the call did to the history and the live artifact, in order
    p_val,      \* verdict of validate_agent_code, and whether the one-episode run started
    p_ret,      \* "none", "True", "False": what the call returned
    p_created,  \* every history entry a backup created, with the text it was given
    \* an optimisation round of llm_modifier.py, from the answer of the model
    a_track,    \* "agent" or "config"
    a_kinds,    \* what each section of the answer looks like
    a_text,     \* response_text
    a_pc,       \* "start", "extracted", "selected", "returned"
    a_list,     \* Some(param_changes_list / agent_codes) once extracted
    a_handed,   \* Some(list given to test_multiple_configs / test_multiple_agents)
    a_wrote,    \* the Promotion Gate wrote the live artifact
    a_ret,      \* "none", "True", "False": what apply_multi_* returned
    \* an Agent of RL/agent.py and its exploration rate
    g_config,   \* the configuration the agent is constructed from
    g_agent,    \* the Agent object (None before construction)
    g_prev,     \* epsilon before the last call of decay_epsilon
    g_n,        \* number of calls of decay_epsilon so far
    \* a call of validate_parameter
    v_key,      \* key
    v_value,    \* value, as json.loads produced it
    v_config,   \* config
    v_pc,       \* "call", "returned", "raised"
    v_out,      \* what the call returned, or that it raised
    \* the driver process of llm_rl_loop.py
    m_pc,       \* "boot", "train", "decide", "reload"
    m_cycle,    \* cycles run so far
    m_disk,     \* the text of RL/agent.py on disk
    m_sys,      \* sys.modules: the text each loaded module was executed from
    m_Agent,    \* the class the name Agent of llm_rl_loop is bound to (its text)
    m_ran,      \* the agent text the last run_training constructed and ran
    m_promoted, \* the text of the last successful promotion
    \* a call of GridWorld.reset
    r_env,      \* grid_size and n_traps the GridWorld was made with
    r_pc,       \* "goal", "traps", "start": what is being drawn; "returned"
    r_goal,     \* self.goal
    r_traps,    \* self.traps
    r_state,    \* self.state
    r_draws,    \* 1 when the last draw was an excluded cell
    \* a call of generate_config_variants
    q_base,     \* base_config
    q_list,     \* param_changes_list
    q_focus,    \* focus_area
    q_pc,       \* "call", "returned"
    q_variants  \* the list returned

xvars == <<x_pc, x_child, x_tmp, x_ret>>
hvars == <<h_script, h_amb, h_run, h_pc, h_flat, h_agent, h_stdout, h_code,
           h_fail, h_returns, h_ep, h_tape, h_k, h_out>>
svars == <<s_track, s_n, s_pc, s_i, s_original, s_best, s_best_index, s_log, s_ret,
           s_heap>>
dvars == <<d_files, d_ctime, d_clock>>
pvars == <<p_track, p_pc, p_calls, p_index, p_best, p_start, p_events, p_val,
           p_ret, p_created>>
avars == <<a_track, a_kinds, a_text, a_pc, a_list, a_handed, a_wrote, a_ret>>
gvars == <<g_config, g_agent, g_prev, g_n>>
vvars == <<v_key, v_value, v_config, v_pc, v_out>>
mvars == <<m_pc, m_cycle, m_disk, m_sys, m_Agent, m_ran, m_promoted>>
rvars == <<r_env, r_pc, r_goal, r_traps, r_state, r_draws>>
qvars == <<q_base, q_list, q_focus, q_pc, q_variants>>
vars == <<xvars, hvars, svars, dvars, pvars, avars, gvars, vvars, mvars, rvars, qvars>>

----------------------------------------------------------------------------
(* Bounds of the model *)

MaxLines == 2       \* lines of captured stdout
MaxEpisodes == 2    \* num_episodes of a generated program
MaxCands == 3       \* candidates supplied to a round
MaxClock == 2       \* clock seconds a history entry can be named after
MaxCalls == 2       \* calls of save_best_agent / save_best_config in a session
MaxSections == 3    \* candidate sections in an answer of the model
MaxVariants == 2    \* parameter changes in one call of generate_config_variants
MaxGrid == 3        \* largest grid_size a GridWorld is made with
MaxCycles == 6      \* training cycles of the driver (max_cycles)
MaxOff == 1         \* distance of the values tried from a limit of the table
MaxDecays == 3      \* calls of Agent.decay_epsilon on one agent

----------------------------------------------------------------------------
(* Text *)

Tok(k)   == [k |-> k, v |-> 0]
Num(v)   == [k |-> "num", v |-> v]
RES      == Tok("RESULTS:")
SP       == Tok(" ")
COMMA    == Tok(",")
EQ       == Tok("=")
NL       == Tok("\\n")
KAVG     == Tok("avg_return")
KSR      == Tok("success_rate")
JUNK     == Tok("x")

\* str.startswith
StartsWith(s, p) ==
    /\ Len(s) >= Len(p)
    /\ SubSeq(s, 1, Len(p)) = p

\* position of the leftmost occurrence of d in s at or after i, 0 if none
RECURSIVE FindFrom(_, _, _)
FindFrom(s, d, i) ==
    IF i + Len(d) - 1 > Len(s) THEN 0
    ELSE IF SubSeq(s, i, i + Len(d) - 1) = d THEN i
    ELSE FindFrom(s, d, i + 1)

\* str.split(d): the pieces of s between the non-overlapping occurrences of
\* d, scanned left to right; always at least one piece
RECURSIVE Split(_, _)
Split(s, d) ==
    LET p == FindFrom(s, d, 1) IN
    IF p = 0 THEN <<s>>
    ELSE <<SubSeq(s, 1, p - 1)>> \o Split(SubSeq(s, p + Len(d), Len(s)), d)

\* str.strip() of blanks, as float() does before converting
RECURSIVE Strip(_)
Strip(s) ==
    IF s = <<>> THEN s
    ELSE IF Head(s) = SP THEN Strip(Tail(s))
    ELSE IF s[Len(s)] = SP THEN Strip(SubSeq(s, 1, Len(s) - 1))
    ELSE s

\* float(s): ok and the value, or not ok (ValueError)
Float(s) ==
    LET t == Strip(s) IN
    IF Len(t) = 1 /\ t[1].k = "num" THEN [ok |-> TRUE, v |-> t[1].v]
    ELSE [ok |-> FALSE, v |-> 0]

----------------------------------------------------------------------------
(* Result Protocol and its parser: validation/test_runner.py *)

SENTINEL_AVG == -999000     \* avg_return = -999.0
SENTINEL_SR  == 0           \* success_rate = 0.0

Metrics(a, s) == [avg_return |-> a, success_rate |-> s]
SentinelMetrics == Metrics(SENTINEL_AVG, SENTINEL_SR)

\* "RESULTS: avg_return=<a>, success_rate=<b>" as the harness writes it
ResultLine(a, b) ==
    <<RES, SP, KAVG, EQ, Num(a), COMMA, SP, KSR, EQ, Num(b)>>

\* One iteration of the loop of _parse_test_output on a line that starts
\* with "RESULTS:". acc is (avg_return, success_rate) before the line; brk
\* says whether the loop breaks. Python assigns avg_return before it
\* converts success_rate, and the except clause leaves what was assigned.
ParseLine(line, acc) ==
    LET a == Split(line, <<RES, SP>>) IN
    IF Len(a) < 2 THEN [acc |-> acc, brk |-> FALSE]                \* IndexError
    ELSE
    LET parts == Split(a[2], <<COMMA, SP>>)
        p0    == Split(parts[1], <<EQ>>) IN
    IF Len(p0) < 2 THEN [acc |-> acc, brk |-> FALSE]               \* IndexError
    ELSE IF ~Float(p0[2]).ok THEN [acc |-> acc, brk |-> FALSE]     \* ValueError
    ELSE
    LET acc1 == <<Float(p0[2]).v, acc[2]>> IN
    IF Len(parts) < 2 THEN [acc |-> acc1, brk |-> FALSE]           \* IndexError
    ELSE
    LET p1 == Split(parts[2], <<EQ>>) IN
    IF Len(p1) < 2 THEN [acc |-> acc1, brk |-> FALSE]              \* IndexError
    ELSE IF ~Float(p1[2]).ok THEN [acc |-> acc1, brk |-> FALSE]    \* ValueError
    ELSE [acc |-> <<acc1[1], Float(p1[2]).v>>, brk |-> TRUE]

RECURSIVE ParseLoop(_, _)
ParseLoop(lines, acc) ==
    IF lines = <<>> THEN acc
    ELSE IF ~StartsWith(Head(lines), <<RES>>) THEN ParseLoop(Tail(lines), acc)
    ELSE LET r == ParseLine(Head(lines), acc) IN
         IF r.brk THEN r.acc ELSE ParseLoop(Tail(lines), r.acc)

\* _parse_test_output(stdout) -> (avg_return, success_rate)
parse_test_output(stdout) ==
    ParseLoop(Split(stdout, <<NL>>), <<SENTINEL_AVG, SENTINEL_SR>>)

----------------------------------------------------------------------------
(* Isolated Executor: _execute_test_script *)

NoChild == [kind |-> "none", code |-> 0, out |-> <<>>]
NoRet   == [avg_return |-> 0, success_rate |-> 0, test_name |-> "none"]

ChildExit(c, out) == [kind |-> "exit", code |-> c, out |-> out]
ChildTimeout      == [kind |-> "timeout", code |-> 0, out |-> <<>>]
ChildOSError      == [kind |-> "oserror", code |-> 0, out |-> <<>>]

\* the try/except of _execute_test_script: the mapping returned for a child
\* outcome. The return code of the child is never read.
ExecuteResult(o, name) ==
    IF o.kind = "timeout" THEN
        [avg_return |-> SENTINEL_AVG, success_rate |-> SENTINEL_SR, test_name |-> name]
    ELSE IF o.kind = "oserror" THEN
        [avg_return |-> SENTINEL_AVG, success_rate |-> SENTINEL_SR, test_name |-> name]
    ELSE
        LET p == parse_test_output(o.out) IN
        [avg_return |-> p[1], success_rate |-> p[2], test_name |-> name]

\* Lines a child process may write to stdout
ExecLines ==
    { ResultLine(1060, 500),
      ResultLine(SENTINEL_AVG, SENTINEL_SR),
      ResultLine(-4300, 0),
      <<RES, SP, KAVG, EQ, Num(2000)>>,                                  \* no second field
      <<RES, SP, KAVG, EQ, Num(2000), COMMA, SP, KSR, EQ, JUNK>>,        \* bad second number
      <<RES, SP, KAVG, EQ, Num(2000), COMMA, SP, KSR>>,                  \* second field without "="
      <<RES, SP, KAVG, EQ, JUNK, COMMA, SP, KSR, EQ, Num(500)>>,         \* bad first number
      <<RES, KAVG, EQ, Num(1060), COMMA, SP, KSR, EQ, Num(500)>>,        \* no blank after the prefix
      <<RES, SP, KAVG, EQ, Num(1060), COMMA, KSR, EQ, Num(500)>>,        \* "," without blank
      <<RES, SP, KAVG, EQ, SP, Num(1060), COMMA, SP, KSR, EQ, Num(500), SP>>, \* padded numbers
      <<JUNK, RES, SP, KAVG, EQ, Num(1060), COMMA, SP, KSR, EQ, Num(500)>>, \* prefix not at the start
      <<JUNK>>,                                                          \* informational text
      <<>> }

\* Join lines with "\n"
RECURSIVE JoinLines(_)
JoinLines(ls) ==
    IF ls = <<>> THEN <<>>
    ELSE IF Len(ls) = 1 THEN ls[1]
    ELSE ls[1] \o <<NL>> \o JoinLines(Tail(ls))

ExecStdouts ==
    { JoinLines(ls) : ls \in UNION { [1..n -> ExecLines] : n \in 0..MaxLines } }

ChildOutcomes ==
    { ChildExit(c, out) : c \in {0, 1}, out \in ExecStdouts }
        \cup {ChildTimeout, ChildOSError}

ExecInit ==
    /\ x_pc = "start"
    /\ x_child = NoChild
    /\ x_tmp = FALSE
    /\ x_ret = NoRet

\* lines 148-150: the program text is written to a fresh temporary file,
\* outside the try block. created: the file came into existence;
\* written: the write succeeded.
ExecWrite ==
    /\ x_pc = "start"
    /\ \E created \in BOOLEAN, written \in BOOLEAN :
         /\ written => created
         /\ x_tmp' = created
         /\ x_pc' = IF written THEN "written" ELSE "raised"
    /\ UNCHANGED <<x_child, x_ret>>
    /\ UNCHANGED <<hvars, svars, dvars, pvars, avars, gvars, vvars, mvars, rvars, qvars>>

\* lines 152-177: run the child, parse or map to the sentinel, and unlink
\* the file in the finally clause
ExecRun ==
    /\ x_pc = "written"
    /\ \E o \in ChildOutcomes :
         /\ x_child' = o
         /\ x_ret' = ExecuteResult(o, "Test")
    /\ x_tmp' = FALSE
    /\ x_pc' = "returned"
    /\ UNCHANGED <<hvars, svars, dvars, pvars, avars, gvars, vvars, mvars, rvars, qvars>>

ExecNext == ExecWrite \/ ExecRun

ExecIdle ==
    /\ x_pc = "idle"
    /\ x_child = NoChild
    /\ x_tmp = FALSE
    /\ x_ret = NoRet

----------------------------------------------------------------------------
(* Configuration documents: config/config_helper.py *)

None    == <<>>
Some(v) == <<v>>

\* A configuration document with its five categories. Rewards and rates are
\* in thousandths.
Config(gs, nt, mp, tp, gr, lr, ms) ==
    [ environment |-> [grid_size |-> gs, n_traps |-> nt],
      rewards     |-> [move_penalty |-> mp, trap_penalty |-> tp, goal_reward |-> gr],
      agent       |-> [learning_rate |-> lr, gamma |-> 900, epsilon_start |-> 1000,
                       epsilon_min |-> 50, epsilon_decay |-> 990],
      training    |-> [episodes |-> 100, max_steps_per_episode |-> ms],
      system      |-> [seed |-> 42] ]

ConfigA == Config(5, 0, -100, -1000, 1000, 100, 2)
ConfigB == Config(5, 1, -500, -2000, 2000, 500, 1)
Configs == {ConfigA, ConfigB}

\* dict.update of the five categories in order: a later category overrides
Flatten(c) ==
    c.system @@ c.training @@ c.agent @@ c.rewards @@ c.environment

\* get_flat_config(): the flattened live configuration plus the alias alpha
\* (load_config raises FileNotFoundError when config.json is missing)
get_flat_config(live) ==
    LET f == Flatten(live[1]) IN ("alpha" :> f.learning_rate) @@ f

SENSE_PENALTY_DEFAULT == -100   \* config.get("sense_penalty", -0.1)

----------------------------------------------------------------------------
(* The program text produced by _generate_test_script, as it executes *)

\* What an agent file can hold. "qlearn" is the Q-learning agent of
\* RL/agent.py; the others are candidate texts that fail at some point.
AgentKinds == {"qlearn", "load_fails", "init_raises", "step_raises"}

Scripts ==
    [ test_config  : {None} \cup {Some(c) : c \in Configs},
      agent_file   : {"none"} \cup AgentKinds,
      num_episodes : 0..MaxEpisodes ]

Ambients ==
    [ live   : [1..2 -> {None} \cup {Some(c) : c \in Configs}],
      env_ok : BOOLEAN ]

NoEpisode == [ep_return |-> 0, steps |-> 0, done |-> TRUE]

\* the state of one execution before its first statement
RunStart ==
    /\ h_pc' = "config_setup"
    /\ h_flat' = None
    /\ h_agent' = None
    /\ h_stdout' = <<>>
    /\ h_code' = -1
    /\ h_fail' = "none"
    /\ h_returns' = <<>>
    /\ h_ep' = NoEpisode
    /\ h_k' = 0

HarnessInit ==
    /\ h_script \in Scripts
    /\ h_amb \in Ambients
    /\ h_run = 1
    /\ h_pc = "config_setup"
    /\ h_flat = None
    /\ h_agent = None
    /\ h_stdout = <<>>
    /\ h_code = -1
    /\ h_fail = "none"
    /\ h_returns = <<>>
    /\ h_ep = NoEpisode
    /\ h_tape = <<>>
    /\ h_k = 0
    /\ h_out = [r \in 1..2 |-> NoChild]

HarnessIdle ==
    /\ h_script = [test_config |-> None, agent_file |-> "none", num_episodes |-> 0]
    /\ h_amb = [live |-> [r \in 1..2 |-> None], env_ok |-> TRUE]
    /\ h_run = 0
    /\ h_pc = "idle"
    /\ h_flat = None
    /\ h_agent = None
    /\ h_stdout = <<>>
    /\ h_code = -1
    /\ h_fail = "none"
    /\ h_returns = <<>>
    /\ h_ep = NoEpisode
    /\ h_tape = <<>>
    /\ h_k = 0
    /\ h_out = [r \in 1..2 |-> NoChild]

Live == h_amb.live[h_run]

\* the agent class the program binds to the name Agent: the candidate file,
\* or RL/agent.py when no file was given
AgentKind ==
    IF h_script.agent_file # "none" THEN h_script.agent_file ELSE "qlearn"

\* An exception outside the try block: the traceback goes to stderr, nothing
\* is written to stdout, the interpreter exits with status 1.
Unhandled(site) ==
    /\ h_pc' = "exited"
    /\ h_code' = 1
    /\ h_fail' = site
    /\ UNCHANGED <<h_stdout, h_flat, h_agent, h_returns, h_ep, h_tape, h_k>>

\* lines 137-142: the except clause prints the error, the sentinel line, and
\* exits with status 1
Caught(site) ==
    /\ h_pc' = "exited"
    /\ h_code' = 1
    /\ h_fail' = site
    /\ h_stdout' = h_stdout \o <<JUNK, NL>>
                     \o ResultLine(SENTINEL_AVG, SENTINEL_SR) \o <<NL>>

\* lines 64-81 and 95: config_setup
HConfigSetup ==
    /\ h_pc = "config_setup"
    /\ IF h_script.test_config # None
       THEN /\ h_flat' = Some(Flatten(h_script.test_config[1]))
            /\ h_pc' = "agent_import"
            /\ UNCHANGED <<h_stdout, h_code, h_fail, h_agent, h_returns, h_ep, h_tape, h_k>>
       ELSE IF Live = None
       THEN Unhandled("config_setup")
       ELSE /\ h_flat' = Some(get_flat_config(Live))
            /\ h_pc' = "agent_import"
            /\ UNCHANGED <<h_stdout, h_code, h_fail, h_agent, h_returns, h_ep, h_tape, h_k>>
    /\ UNCHANGED <<h_script, h_amb, h_run, h_out>>
    /\ UNCHANGED <<xvars, svars, dvars, pvars, avars, gvars, vvars, mvars, rvars, qvars>>

\* lines 48-62 and 97: agent_import
HAgentImport ==
    /\ h_pc = "agent_import"
    /\ IF AgentKind = "load_fails"
       THEN Unhandled("agent_import")
       ELSE /\ h_pc' = "env_import"
            /\ UNCHANGED <<h_stdout, h_code, h_fail, h_flat, h_agent, h_returns, h_ep, h_tape, h_k>>
    /\ UNCHANGED <<h_script, h_amb, h_run, h_out>>
    /\ UNCHANGED <<xvars, svars, dvars, pvars, avars, gvars, vvars, mvars, rvars, qvars>>

\* line 99: from env import GridWorld
HEnvImport ==
    /\ h_pc = "env_import"
    /\ IF ~h_amb.env_ok
       THEN Unhandled("env_import")
       ELSE /\ h_pc' = "construct"
            /\ UNCHANGED <<h_stdout, h_code, h_fail, h_flat, h_agent, h_returns, h_ep, h_tape, h_k>>
    /\ UNCHANGED <<h_script, h_amb, h_run, h_out>>
    /\ UNCHANGED <<xvars, svars, dvars, pvars, avars, gvars, vvars, mvars, rvars, qvars>>

\* Agent.__init__ of RL/agent.py: every hyperparameter comes from
\* get_flat_config(), the live configuration
NewAgent(live) ==
    LET c == get_flat_config(live) IN
    [ alpha |-> c.learning_rate, gamma |-> c.gamma, epsilon |-> c.epsilon_start,
      epsilon_min |-> c.epsilon_min, epsilon_decay |-> c.epsilon_decay ]

\* an agent object of a candidate that does not read the configuration
OtherAgent ==
    [ alpha |-> 0, gamma |-> 0, epsilon |-> 0, epsilon_min |-> 0, epsilon_decay |-> 0 ]

\* lines 101-110: seeds, GridWorld(...), Agent(env), returns = []
HConstruct ==
    /\ h_pc = "construct"
    /\ IF AgentKind = "init_raises" \/ (AgentKind = "qlearn" /\ Live = None)
       THEN /\ Caught("agent_init")
            /\ UNCHANGED <<h_flat, h_agent, h_returns, h_ep, h_tape, h_k>>
       ELSE /\ h_agent' = IF AgentKind = "qlearn" THEN Some(NewAgent(Live))
                          ELSE Some(OtherAgent)
            /\ h_pc' = "loop"
            /\ UNCHANGED <<h_stdout, h_code, h_fail, h_flat, h_returns, h_ep, h_tape, h_k>>
    /\ UNCHANGED <<h_script, h_amb, h_run, h_out>>
    /\ UNCHANGED <<xvars, svars, dvars, pvars, avars, gvars, vvars, mvars, rvars, qvars>>

\* lines 113-117: the next episode begins
HReset ==
    /\ h_pc = "loop"
    /\ Len(h_returns) < h_script.num_episodes
    /\ h_ep' = [ep_return |-> 0, steps |-> 0, done |-> FALSE]
    /\ h_pc' = "while"
    /\ UNCHANGED <<h_stdout, h_code, h_fail, h_flat, h_agent, h_returns, h_tape, h_k>>
    /\ UNCHANGED <<h_script, h_amb, h_run, h_out>>
    /\ UNCHANGED <<xvars, svars, dvars, pvars, avars, gvars, vvars, mvars, rvars, qvars>>

\* what one step of the seeded run can be: the sense action, a move to a
\* free cell, a move onto the goal, a move onto a trap
Events(flat) ==
    {"sense", "move", "goal"} \cup (IF flat.n_traps > 0 THEN {"trap"} ELSE {})

\* GridWorld.step (env.py 38-63): the reward of an event. Every reward is
\* read from get_flat_config(), the live configuration.
StepReward(ev, live) ==
    LET config == get_flat_config(live) IN
    IF ev = "sense" THEN SENSE_PENALTY_DEFAULT
    ELSE IF ev = "goal" THEN config.move_penalty + config.goal_reward
    ELSE IF ev = "trap" THEN config.move_penalty + config.trap_penalty
    ELSE config.move_penalty

\* lines 119-126: one iteration of the while loop. The event is the next
\* entry of the seeded tape: the first execution extends the tape, a later
\* one replays it.
HStep ==
    /\ h_pc = "while"
    /\ ~h_ep.done
    /\ h_ep.steps < h_flat[1].max_steps_per_episode
    /\ \E ev \in Events(h_flat[1]) :
         /\ h_k < Len(h_tape) => ev = h_tape[h_k + 1]
         /\ h_tape' = IF h_k < Len(h_tape) THEN h_tape ELSE Append(h_tape, ev)
         /\ h_k' = h_k + 1
         /\ IF AgentKind = "step_raises" \/ Live = None
            THEN /\ Caught("episode")
                 /\ UNCHANGED h_ep
            ELSE /\ h_ep' = [ ep_return |-> h_ep.ep_return + StepReward(ev, Live),
                              steps     |-> h_ep.steps + 1,
                              done      |-> ev = "goal" ]
                 /\ UNCHANGED <<h_pc, h_stdout, h_code, h_fail>>
    /\ UNCHANGED <<h_flat, h_agent, h_returns>>
    /\ UNCHANGED <<h_script, h_amb, h_run, h_out>>
    /\ UNCHANGED <<xvars, svars, dvars, pvars, avars, gvars, vvars, mvars, rvars, qvars>>

Max(a, b) == IF a >= b THEN a ELSE b

\* Agent.decay_epsilon (RL/agent.py 51-52)
decay_epsilon(a) ==
    [a EXCEPT !.epsilon = Max(a.epsilon_min, (a.epsilon * a.epsilon_decay) \div 1000)]

\* lines 128-129: the while loop ended
HEpisodeEnd ==
    /\ h_pc = "while"
    /\ h_ep.done \/ h_ep.steps >= h_flat[1].max_steps_per_episode
    /\ h_agent' = Some(decay_epsilon(h_agent[1]))
    /\ h_returns' = Append(h_returns, h_ep.ep_return)
    /\ h_pc' = "loop"
    /\ UNCHANGED <<h_stdout, h_code, h_fail, h_flat, h_ep, h_tape, h_k>>
    /\ UNCHANGED <<h_script, h_amb, h_run, h_out>>
    /\ UNCHANGED <<xvars, svars, dvars, pvars, avars, gvars, vvars, mvars, rvars, qvars>>

RECURSIVE Sum(_)
Sum(q) == IF q = <<>> THEN 0 ELSE Head(q) + Sum(Tail(q))

\* a/b rounded to the nearest integer, as "%.3f" rounds to the nearest thousandth
RoundDiv(a, b) == (2 * a + b) \div (2 * b)

Positive(q) == Cardinality({i \in 1..Len(q) : q[i] > 0})

\* lines 131-135: the metrics and the RESULTS line; with no episode the
\* division by len(returns) raises ZeroDivisionError
HReport ==
    /\ h_pc = "loop"
    /\ Len(h_returns) >= h_script.num_episodes
    /\ IF Len(h_returns) = 0 THEN Caught("metrics")
       ELSE /\ h_stdout' = h_stdout
                   \o ResultLine(RoundDiv(Sum(h_returns), Len(h_returns)),
                                 RoundDiv(1000 * Positive(h_returns), Len(h_returns)))
                   \o <<NL>>
            /\ h_code' = 0
            /\ h_pc' = "exited"
            /\ UNCHANGED h_fail
    /\ UNCHANGED <<h_flat, h_agent, h_returns, h_ep, h_tape, h_k>>
    /\ UNCHANGED <<h_script, h_amb, h_run, h_out>>
    /\ UNCHANGED <<xvars, svars, dvars, pvars, avars, gvars, vvars, mvars, rvars, qvars>>

\* the second execution of the same program text starts when the first exited
HNextRun ==
    /\ h_pc = "exited"
    /\ h_out' = [h_out EXCEPT ![h_run] = ChildExit(h_code, h_stdout)]
    /\ IF h_run = 1
       THEN /\ h_run' = 2
            /\ RunStart
       ELSE /\ h_run' = 3
            /\ h_pc' = "finished"
            /\ UNCHANGED <<h_flat, h_agent, h_stdout, h_code, h_fail, h_returns, h_ep, h_k>>
    /\ UNCHANGED <<h_script, h_amb, h_tape>>
    /\ UNCHANGED <<xvars, svars, dvars, pvars, avars, gvars, vvars, mvars, rvars, qvars>>

HarnessNext ==
    \/ HConfigSetup
    \/ HAgentImport
    \/ HEnvImport
    \/ HConstruct
    \/ HReset
    \/ HStep
    \/ HEpisodeEnd
    \/ HReport
    \/ HNextRun

----------------------------------------------------------------------------
(* The working directory: the live artifacts, the scratch directories and  *)
(* the history directories of AgentManager and ConfigManager               *)

Path(dir, name, n) == [dir |-> dir, name |-> name, n |-> n]

\* AgentManager.__init__ and ConfigManager.__init__
agent_file        == Path("RL", "agent.py", 0)
config_file       == Path("config", "config.json", 0)
candidate_file(i) == Path("RL/temp_agents", "candidate", i)
pycache_dir       == Path("RL/temp_agents", "__pycache__", 0)
variant_file(i)   == Path("config/temp_configs", "variant", i)

\* backup_name: agent_%Y%m%d_%H%M%S.py, config_%Y%m%d_%H%M%S.json; the name
\* holds the clock reading to the second
agent_backup(sec)  == Path("RL/agent_history", "agent", sec)
config_backup(sec) == Path("config/config_history", "config", sec)

Seconds == 0..MaxClock

HistoryPaths ==
    {agent_backup(t) : t \in Seconds} \cup {config_backup(t) : t \in Seconds}

ScratchPaths ==
    {candidate_file(i) : i \in 0..MaxCands} \cup {pycache_dir}
        \cup {variant_file(i) : i \in 0..MaxCands}

Paths == {agent_file, config_file} \cup ScratchPaths \cup HistoryPaths

\* pathlib glob of dir for name_*: the files that exist
Glob(files, dir, name) ==
    {p \in DOMAIN files : p.dir = dir /\ p.name = name /\ files[p] # None}

\* open(path, 'w') followed by write / json.dump
WriteFile(files, path, text) == [files EXCEPT ![path] = Some(text)]

\* unlink / rmtree of a set of paths
Remove(files, S) == [p \in DOMAIN files |-> IF p \in S THEN None ELSE files[p]]

\* the capability methods validate_agent_code asks for
required_methods == {"select_action", "learn", "decay_epsilon"}

\* The text of an agent file: whether it defines a class named Agent and
\* which of its attributes exist; id tells two texts apart.
AgentText(id, cls, methods) == [id |-> id, cls |-> cls, methods |-> methods]

OriginalAgent == AgentText(-1, TRUE, required_methods)

----------------------------------------------------------------------------
(* Variant generation: ConfigManager.generate_config_variants and          *)
(* validation/param_validation.py. Configuration objects live in memory    *)
(* and are reached by reference: heap maps a reference to None or          *)
(* Some(document).                                                         *)

\* PARAMETER_BOUNDS: (min, max), None for no bound
PARAMETER_BOUNDS ==
    [ grid_size             |-> <<Some(1), Some(10)>>,
      n_traps               |-> <<Some(0), None>>,
      move_penalty          |-> <<Some(-1000), Some(0)>>,
      trap_penalty          |-> <<Some(-10000), Some(0)>>,
      goal_reward           |-> <<Some(100), Some(10000)>>,
      learning_rate         |-> <<Some(10), Some(1000)>>,
      gamma                 |-> <<Some(100), Some(990)>>,
      epsilon_start         |-> <<Some(100), Some(1000)>>,
      epsilon_min           |-> <<Some(10), Some(500)>>,
      epsilon_decay         |-> <<Some(900), Some(999)>>,
      episodes              |-> <<Some(50), Some(1000)>>,
      max_steps_per_episode |-> <<Some(50), Some(500)>>,
      seed                  |-> <<None, None>> ]

PARAMETER_CATEGORIES ==
    [ grid_size             |-> "environment",
      n_traps               |-> "environment",
      move_penalty          |-> "rewards",
      trap_penalty          |-> "rewards",
      goal_reward           |-> "rewards",
      learning_rate         |-> "agent",
      gamma                 |-> "agent",
      epsilon_start         |-> "agent",
      epsilon_min           |-> "agent",
      epsilon_decay         |-> "agent",
      episodes              |-> "training",
      max_steps_per_episode |-> "training",
      seed                  |-> "system" ]

\* ConfigManager.__init__
agent_params    == {"learning_rate", "gamma", "epsilon_start", "epsilon_min", "epsilon_decay"}
training_params == {"episodes", "max_steps_per_episode"}

\* validate_parameter: the boolean of the pair it returns
validate_parameter(key, value, config) ==
    IF key \notin DOMAIN PARAMETER_BOUNDS THEN FALSE
    ELSE LET min_val == PARAMETER_BOUNDS[key][1]
             max_val == PARAMETER_BOUNDS[key][2]
         IN  IF min_val # None /\ value < min_val[1] THEN FALSE
             ELSE IF max_val # None /\ value > max_val[1] THEN FALSE
             ELSE IF key = "n_traps" /\ value > config.environment.grid_size THEN FALSE
             ELSE TRUE

\* get_parameter_category: PARAMETER_CATEGORIES.get(key)
get_parameter_category(key) ==
    IF key \in DOMAIN PARAMETER_CATEGORIES THEN Some(PARAMETER_CATEGORIES[key]) ELSE None

\* The reference of the object get_config_singleton() returns, and the
\* references of the objects in memory
base_config == -1
Refs        == -1..(MaxCands - 1)

\* deepcopy(base_config) of iteration i makes a new object
NewObject(base, i) == i

\* config_manager.py 60-79: the loop over the items of one param_changes,
\* writing into the object ref
RECURSIVE ApplyChanges(_, _, _, _)
ApplyChanges(heap, ref, changes, focus_area) ==
    IF changes = <<>> THEN heap
    ELSE LET param == Head(changes).param
             value == Head(changes).value
             category == get_parameter_category(param)
             skipped ==
                \/ focus_area = "agent" /\ param \notin agent_params
                \/ focus_area = "training" /\ param \notin training_params
                \/ ~validate_parameter(param, value, heap[base_config][1])
                \/ category = None
         IN  ApplyChanges(
                IF skipped THEN heap
                ELSE [heap EXCEPT ![ref][1][category[1]][param] = value],
                ref, Tail(changes), focus_area)

\* config_manager.py 56-81: iteration i and those after it
RECURSIVE GenerateFrom(_, _, _, _)
GenerateFrom(heap, param_changes_list, i, focus_area) ==
    IF i >= Len(param_changes_list) THEN heap
    ELSE LET variant == NewObject(base_config, i)
             copied  == [heap EXCEPT ![variant] = heap[base_config]]
         IN  GenerateFrom(
                ApplyChanges(copied, variant, param_changes_list[i + 1], focus_area),
                param_changes_list, i + 1, focus_area)

\* generate_config_variants: the memory after the call; variants[i] is the
\* object NewObject(base_config, i)
generate_config_variants(heap, param_changes_list, focus_area) ==
    GenerateFrom(heap, param_changes_list, 0, focus_area)

\* Parameter changes a model answer can hold: a change of the agent, one of
\* the environment with an n_traps too high for the grid, one of the
\* training with an unknown parameter
Changes(k) ==
    IF k % 3 = 0 THEN <<[param |-> "learning_rate", value |-> 200]>>
    ELSE IF k % 3 = 1 THEN <<[param |-> "grid_size", value |-> 6],
                             [param |-> "n_traps", value |-> 9]>>
    ELSE <<[param |-> "episodes", value |-> 200], [param |-> "foo", value |-> 1]>>

ChangeList(n, k) == [i \in 1..n |-> Changes(i + k)]

\* The calls of generate_config_variants a round can start with
GenerateInputs(n) ==
    { [param_changes_list |-> ChangeList(n, 0), focus_area |-> "training"],
      [param_changes_list |-> ChangeList(n, 1), focus_area |-> "rewards"] }

----------------------------------------------------------------------------
(* Candidate Selector: RL/agent_manager.py test_multiple_agents and        *)
(* config/config_manager.py test_multiple_configs                          *)

IMPROVEMENT_THRESHOLD_AGENT  == 100     \* improvement_threshold = 0.1
IMPROVEMENT_THRESHOLD_CONFIG == 50      \* improvement_threshold = 0.05

\* variant of AgentBetter: the margin is forgotten
AgentBetterNoMargin(m, best) == m.avg_return > best.avg_return

\* agent_manager.py line 89:
\*   metrics['avg_return'] > best_metrics['avg_return'] * (1 + improvement_threshold)
\* with both sides multiplied by 1000
AgentBetter(m, best) ==
    m.avg_return * 1000 > best.avg_return * (1000 + IMPROVEMENT_THRESHOLD_AGENT)

\* variant of ConfigBetter: the comparison is not strict
ConfigBetterNotStrict(m, best) ==
    m.avg_return >= best.avg_return + IMPROVEMENT_THRESHOLD_CONFIG

\* config_manager.py line 123:
\*   metrics['avg_return'] > best_metrics['avg_return'] + improvement_threshold
ConfigBetter(m, best) ==
    m.avg_return > best.avg_return + IMPROVEMENT_THRESHOLD_CONFIG

\* config_manager.py lines 97 and 117: avg_return <= -999
\* variant of ConfigFailed: a score of exactly -999 does not count as failed
ConfigFailedBelowOnly(m) == m.avg_return < SENTINEL_AVG

ConfigFailed(m) == m.avg_return <= SENTINEL_AVG

\* variant of NextBest: the reference stays the baseline
KeepBaseline(better, m, best) == best

\* agent_manager.py 91, config_manager.py 125: best_metrics = metrics when the
\* candidate is better
NextBest(better, m, best) == IF better THEN m ELSE best

\* variant of AfterException: the exception ends the loop
AbortOnException(i, n) == n

\* the except clauses (agent_manager.py 94-96, config_manager.py 128-130):
\* continue with the next candidate
AfterException(i, n) == i + 1

\* Scores a measured run can report
Scores == {-1200000, -4300, -4000, 1000, 1040, 1050, 1060, 1200}

\* What the child process of one evaluation can do
SelOutcomes ==
    { ChildExit(0, ResultLine(v, 500) \o <<NL>>) : v \in Scores }
        \cup { ChildExit(1, <<JUNK, NL>> \o ResultLine(SENTINEL_AVG, SENTINEL_SR) \o <<NL>>),
               ChildTimeout }

\* test_name of an evaluation
Label(track, i) ==
    IF i = -1 THEN <<"Original", 0>>
    ELSE IF track = "agent" THEN <<"Candidate", i + 1>> ELSE <<"Variant", i + 1>>

\* test_agent_performance / test_config_performance -> run_performance_test
run_performance_test(o, name) == ExecuteResult(o, name)

NoMetrics == [avg_return |-> 0, success_rate |-> 0, test_name |-> <<"none", 0>>]
NoPair    == [index |-> -2, metrics |-> NoMetrics]

\* the candidates handed to a round: agent_codes[i], config_variants[i]
agent_codes(i)     == AgentText(i, TRUE, required_methods)
config_variants(i) == s_heap[NewObject(base_config, i)][1]

\* variant of StagePath: the candidate is written over the live artifact
StageOnLive(track, i) == IF track = "agent" THEN agent_file ELSE config_file

\* agent_manager.py 76, config_manager.py 108: where candidate i is staged
StagePath(track, i) ==
    IF track = "agent" THEN candidate_file(i) ELSE variant_file(i)

\* agent_manager.py 80-81, config_manager.py 109-110
Stage(files, track, i) ==
    WriteFile(files, StagePath(track, i),
              IF track = "agent" THEN agent_codes(i) ELSE config_variants(i))

\* The child of an agent evaluation loads candidate_i.py with
\* spec.loader.exec_module (test_runner.py 53-55), which leaves the
\* bytecode cache RL/temp_agents/__pycache__ behind once the import worked.
Imported(files, track, o) ==
    IF track = "agent" /\ o.kind = "exit" /\ o.code = 0
    THEN WriteFile(files, pycache_dir, AgentText(-3, FALSE, {}))
    ELSE files

\* AgentManager._cleanup_temp_agents
cleanup_temp_agents(files) ==
    Remove(files, Glob(files, "RL/temp_agents", "candidate") \cup {pycache_dir})

\* ConfigManager._cleanup_temp_configs
cleanup_temp_configs(files) ==
    Remove(files, Glob(files, "config/temp_configs", "variant"))

\* What an earlier round that was killed left in the scratch directory
Residues(track) ==
    IF track = "agent"
    THEN {{}, {candidate_file(MaxCands), pycache_dir}}
    ELSE {{}, {variant_file(MaxCands)}}

\* The working directory at the start of a round: both live artifacts, one
\* history entry of each, and the residue R
RoundFiles(R) ==
    [p \in Paths |->
        IF p = agent_file THEN Some(OriginalAgent)
        ELSE IF p = config_file THEN Some(ConfigA)
        ELSE IF p = agent_backup(0) THEN Some(AgentText(-2, TRUE, required_methods))
        ELSE IF p = config_backup(0) THEN Some(ConfigB)
        ELSE IF p \in R THEN Some(AgentText(-3, FALSE, {}))
        ELSE None]

DiskIdle ==
    /\ d_files = [p \in Paths |-> None]
    /\ d_ctime = [p \in HistoryPaths |-> 0]
    /\ d_clock = [sec |-> 0, tick |-> 0]

SelInit ==
    /\ s_track \in {"agent", "config"}
    /\ \E R \in Residues(s_track) : d_files = RoundFiles(R)
    /\ d_ctime = [p \in HistoryPaths |-> IF p.n = 0 THEN 1 ELSE 0]
    /\ d_clock = [sec |-> 1, tick |-> 2]
    /\ s_n \in 0..MaxCands
    /\ s_pc = (IF s_track = "config" THEN "generate" ELSE "start")
    /\ s_heap = [r \in Refs |-> IF r = base_config THEN Some(ConfigA) ELSE None]
    /\ s_i = 0
    /\ s_original = NoMetrics
    /\ s_best = NoMetrics
    /\ s_best_index = -2
    /\ s_log = <<>>
    /\ s_ret = NoPair

SelIdle ==
    /\ s_track = "none"
    /\ s_n = 0
    /\ s_pc = "idle"
    /\ s_heap = [r \in Refs |-> None]
    /\ s_i = 0
    /\ s_original = NoMetrics
    /\ s_best = NoMetrics
    /\ s_best_index = -2
    /\ s_log = <<>>
    /\ s_ret = NoPair

\* llm_modifier.py 140-141: the configuration round first makes its variants
\* from the parameter changes the model proposed
SelGenerate ==
    /\ s_pc = "generate"
    /\ \E call \in GenerateInputs(s_n) :
          s_heap' = generate_config_variants(s_heap, call.param_changes_list,
                                             call.focus_area)
    /\ s_pc' = "start"
    /\ UNCHANGED <<s_track, s_n, s_i, s_original, s_best, s_best_index, s_log, s_ret>>
    /\ UNCHANGED <<xvars, hvars, dvars, pvars, avars, gvars, vvars, mvars, rvars, qvars>>

\* agent_manager.py 67-72, config_manager.py 92-102: the baseline is tested
\* first. An exception of the test (the temporary file cannot be written,
\* config.json cannot be loaded) is not caught here. The configuration track
\* returns at once when the baseline failed.
SelBaseline ==
    /\ s_pc = "start"
    /\ \/ /\ s_pc' = "raised"
          /\ UNCHANGED <<s_original, s_best, s_best_index, s_ret>>
       \/ \E o \in SelOutcomes :
          \E original_metrics \in {run_performance_test(o, Label(s_track, -1))} :
            /\ s_original' = original_metrics
            /\ IF s_track = "config" /\ ConfigFailed(original_metrics)
               THEN /\ s_pc' = "returned"
                    /\ s_ret' = [index |-> -1, metrics |-> original_metrics]
                    /\ UNCHANGED <<s_best, s_best_index>>
               ELSE /\ s_pc' = "loop"
                    /\ s_best' = original_metrics
                    /\ s_best_index' = -1
                    /\ UNCHANGED s_ret
    /\ UNCHANGED <<s_track, s_n, s_i, s_log, s_heap>>
    /\ UNCHANGED <<xvars, hvars, dvars, pvars, avars, gvars, vvars, mvars, rvars, qvars>>

LogEntry(i, how, m, before, accepted) ==
    [i |-> i, how |-> how, metrics |-> m, before |-> before, accepted |-> accepted]

\* agent_manager.py 75-96, config_manager.py 105-130: one iteration whose
\* staging (the file is not there) or test (the file is there) raises; the
\* except clause reports it and continues
SelCandidateRaises ==
    /\ s_pc = "loop"
    /\ s_i < s_n
    /\ d_files' \in {d_files, Stage(d_files, s_track, s_i)}
    /\ s_log' = Append(s_log, LogEntry(s_i, "raised", NoMetrics, s_best.avg_return, FALSE))
    /\ s_i' = AfterException(s_i, s_n)
    /\ UNCHANGED <<s_track, s_n, s_pc, s_original, s_best, s_best_index, s_ret, s_heap>>
    /\ UNCHANGED <<xvars, hvars, d_ctime, d_clock, pvars, avars, gvars, vvars, mvars, rvars, qvars>>

\* agent_manager.py 75-92, config_manager.py 105-126: one iteration whose
\* candidate is staged and tested
SelCandidate ==
    /\ s_pc = "loop"
    /\ s_i < s_n
    /\ \E o \in SelOutcomes :
       \E metrics \in {run_performance_test(o, Label(s_track, s_i))} :
       \E better \in {IF s_track = "agent" THEN AgentBetter(metrics, s_best)
                      ELSE ~ConfigFailed(metrics) /\ ConfigBetter(metrics, s_best)} :
         /\ s_log' = Append(s_log, LogEntry(s_i, "tested", metrics, s_best.avg_return, better))
         /\ s_best' = NextBest(better, metrics, s_best)
         /\ s_best_index' = IF better THEN s_i ELSE s_best_index
         /\ d_files' = Imported(Stage(d_files, s_track, s_i), s_track, o)
    /\ s_i' = s_i + 1
    /\ UNCHANGED <<s_track, s_n, s_pc, s_original, s_ret, s_heap>>
    /\ UNCHANGED <<xvars, hvars, d_ctime, d_clock, pvars, avars, gvars, vvars, mvars, rvars, qvars>>

\* agent_manager.py 98-101, config_manager.py 132-135: the loop is over,
\* the scratch directory is cleaned and the running best is returned
SelReturn ==
    /\ s_pc = "loop"
    /\ s_i >= s_n
    /\ d_files' = IF s_track = "agent" THEN cleanup_temp_agents(d_files)
                                       ELSE cleanup_temp_configs(d_files)
    /\ s_ret' = [index |-> s_best_index, metrics |-> s_best]
    /\ s_pc' = "returned"
    /\ UNCHANGED <<s_track, s_n, s_i, s_original, s_best, s_best_index, s_log, s_heap>>
    /\ UNCHANGED <<xvars, hvars, d_ctime, d_clock, pvars, avars, gvars, vvars, mvars, rvars, qvars>>

SelNext ==
    \/ SelGenerate
    \/ SelBaseline
    \/ SelCandidateRaises
    \/ SelCandidate
    \/ SelReturn

----------------------------------------------------------------------------
(* Version Store and Promotion Gate: backup_current_agent,                 *)
(* _restore_latest_backup, save_best_agent of RL/agent_manager.py, their   *)
(* counterparts of config/config_manager.py, and validate_agent_code       *)

live_file(track)      == IF track = "agent" THEN agent_file ELSE config_file
backup_path(track, t) == IF track = "agent" THEN agent_backup(t) ELSE config_backup(t)

\* history_dir.glob("agent_*.py") / glob("config_*.json")
Backups(files, track) ==
    IF track = "agent" THEN Glob(files, "RL/agent_history", "agent")
    ELSE Glob(files, "config/config_history", "config")

\* variant of Latest: the entry written first
Oldest(files, ctime, track) ==
    CHOOSE p \in Backups(files, track) :
        \A q \in Backups(files, track) : ctime[p] <= ctime[q]

\* max(backups, key=os.path.getctime)
Latest(files, ctime, track) ==
    CHOOSE p \in Backups(files, track) :
        \A q \in Backups(files, track) : ctime[q] <= ctime[p]

\* What is left of a file whose writing was cut short
Truncated(track) ==
    IF track = "agent" THEN AgentText(-9, FALSE, {})
    ELSE Config(0, 0, 0, 0, 0, 0, 0)

\* The texts a caller can hand to save_best_agent / save_best_config as
\* agent_codes[best_index] / config_variants[best_index]
BestTexts(track) ==
    IF track = "agent"
    THEN {AgentText(0, TRUE, required_methods), AgentText(1, FALSE, {})}
            \cup {AgentText(2, TRUE, required_methods \ {m}) : m \in required_methods}
    ELSE {ConfigB}

NoEvents  == <<>>
NoVerdict == [result |-> "none", demo |-> FALSE, avg |-> 0]

\* The working directory before the first call: the live artifact of the
\* track may be missing, and the history may hold an entry of an earlier
\* session
PromoteFiles(track, live, old) ==
    [p \in Paths |->
        IF p = live_file(track) THEN live
        ELSE IF p = backup_path(track, 0) THEN old
        ELSE None]

PromoteInit ==
    /\ p_track \in {"agent", "config"}
    /\ p_pc = "ready"
    /\ p_calls = 0
    /\ p_index = -1
    /\ p_best = None
    /\ p_start = None
    /\ p_events = NoEvents
    /\ p_val = NoVerdict
    /\ p_ret = "none"
    /\ p_created = {}
    /\ \E live \in {None, Some(IF p_track = "agent" THEN OriginalAgent ELSE ConfigA)} :
       \E old \in {None, Some(IF p_track = "agent"
                              THEN AgentText(-2, TRUE, required_methods)
                              ELSE Config(5, 1, -100, -1000, 1000, 100, 2))} :
          /\ d_files = PromoteFiles(p_track, live, old)
          /\ d_ctime = [p \in HistoryPaths |->
                          IF p = backup_path(p_track, 0) /\ old # None THEN 1 ELSE 0]
    /\ d_clock = [sec |-> 0, tick |-> 1]

PromoteIdle ==
    /\ p_track = "none"
    /\ p_pc = "idle"
    /\ p_calls = 0
    /\ p_index = -1
    /\ p_best = None
    /\ p_start = None
    /\ p_events = NoEvents
    /\ p_val = NoVerdict
    /\ p_ret = "none"
    /\ p_created = {}

Event(op, res, text) == [op |-> op, res |-> res, text |-> text]

\* agent_manager.py 103-107, config_manager.py 137-141: the call and its
\* early return when the original is still the best
PCall ==
    /\ p_pc \in {"ready", "returned"}
    /\ p_calls < MaxCalls
    /\ p_calls' = p_calls + 1
    /\ p_start' = d_files[live_file(p_track)]
    /\ p_events' = NoEvents
    /\ p_val' = NoVerdict
    /\ \E best_index \in {-1, 0} :
       \E text \in BestTexts(p_track) :
          /\ p_index' = best_index
          /\ p_best' = Some(text)
          /\ IF best_index = -1
             THEN p_pc' = "returned" /\ p_ret' = "False"
             ELSE p_pc' = "backup" /\ p_ret' = "none"
    /\ UNCHANGED <<p_track, p_created>>
    /\ UNCHANGED <<xvars, hvars, svars, dvars, avars, gvars, vvars, mvars, rvars, qvars>>

\* backup_current_agent / backup_current_config, called at
\* agent_manager.py 111, config_manager.py 145. Time may have passed since
\* the last reading of the clock. shutil.copy2 can raise, before or after it
\* created the entry.
PBackup ==
    /\ p_pc = "backup"
    /\ \E t \in {d_clock.sec, d_clock.sec + 1} \cap Seconds :
       LET live == d_files[live_file(p_track)]
           dst  == backup_path(p_track, t)
           now  == d_clock.tick + 1
       IN  IF live = None
           THEN /\ p_events' = Append(p_events, Event("backup", "noop", None))
                /\ p_pc' = "write"
                /\ d_clock' = [d_clock EXCEPT !.sec = t]
                /\ UNCHANGED <<d_files, d_ctime, p_created>>
           ELSE \/ /\ d_files' = WriteFile(d_files, dst, live[1])
                   /\ d_ctime' = [d_ctime EXCEPT ![dst] = now]
                   /\ d_clock' = [sec |-> t, tick |-> now]
                   /\ p_created' = p_created \cup {[path |-> dst, text |-> live[1]]}
                   /\ p_events' = Append(p_events, Event("backup", "ok", live))
                   /\ p_pc' = "write"
                \/ /\ \/ UNCHANGED <<d_files, d_ctime>>
                      \/ /\ d_files' = WriteFile(d_files, dst, Truncated(p_track))
                         /\ d_ctime' = [d_ctime EXCEPT ![dst] = now]
                   /\ d_clock' = [sec |-> t, tick |-> now]
                   /\ p_events' = Append(p_events, Event("backup", "raised", None))
                   /\ p_pc' = "restore"
                   /\ UNCHANGED p_created
    /\ UNCHANGED <<p_track, p_calls, p_index, p_best, p_start, p_val, p_ret>>
    /\ UNCHANGED <<xvars, hvars, svars, avars, gvars, vvars, mvars, rvars, qvars>>

\* agent_manager.py 114-116 (open, write), config_manager.py 148-152
\* (save_config, return True). A write that raises leaves the file as it
\* was or cut short.
PWrite ==
    /\ p_pc = "write"
    /\ \/ /\ d_files' = WriteFile(d_files, live_file(p_track), p_best[1])
          /\ p_events' = Append(p_events, Event("write", "ok", p_best))
          /\ IF p_track = "agent"
             THEN p_pc' = "validate" /\ p_ret' = "none"
             ELSE p_pc' = "returned" /\ p_ret' = "True"
       \/ /\ \/ /\ UNCHANGED d_files
                /\ p_events' = Append(p_events, Event("open", "raised", None))
             \/ /\ d_files' = WriteFile(d_files, live_file(p_track), Truncated(p_track))
                /\ p_events' = Append(p_events, Event("write", "raised", Some(Truncated(p_track))))
          /\ p_pc' = "restore"
          /\ UNCHANGED p_ret
    /\ UNCHANGED <<p_track, p_calls, p_index, p_best, p_start, p_val, p_created>>
    /\ UNCHANGED <<xvars, hvars, svars, d_ctime, d_clock, avars, gvars, vvars, mvars, rvars, qvars>>

\* variant of HasStructure: only the class is looked for
HasClassOnly(text) == text.cls

\* agent_validation.py 39-49: the class Agent exists and has every method
\* of required_methods
HasStructure(text) ==
    /\ text.cls
    /\ \A m \in required_methods : m \in text.methods

\* what the one-episode run of the live agent can return as avg_return: the
\* sentinel of a failed run, or the return of the episode
DemoReturns == {SENTINEL_AVG, -5000, 900}

\* variant of test_demo_run: the sentinel passes
DemoNotBelowSentinel(avg_return) == avg_return >= SENTINEL_AVG

\* test_demo_run (agent_validation.py 58-81): metrics['avg_return'] > -999
test_demo_run(avg_return) == avg_return > SENTINEL_AVG

\* validate_agent_code (agent_validation.py 31-56) on the live agent file,
\* called at agent_manager.py 119. exec_module can raise; test_demo_run runs
\* one episode in a child process and passes iff avg_return > -999.
PValidate ==
    /\ p_pc = "validate"
    /\ LET text == d_files[agent_file][1] IN
       \/ /\ p_val' = [result |-> "False", demo |-> FALSE, avg |-> 0]   \* exec_module raises
          /\ p_pc' = "restore" /\ UNCHANGED p_ret
       \/ /\ ~HasStructure(text)
          /\ p_val' = [result |-> "False", demo |-> FALSE, avg |-> 0]
          /\ p_pc' = "restore" /\ UNCHANGED p_ret
       \/ /\ HasStructure(text)
          /\ \E avg_return \in DemoReturns :
             LET passed == test_demo_run(avg_return) IN
               /\ p_val' = [result |-> IF passed THEN "True" ELSE "False", demo |-> TRUE,
                            avg |-> avg_return]
               /\ IF passed THEN p_pc' = "returned" /\ p_ret' = "True"
                            ELSE p_pc' = "restore" /\ UNCHANGED p_ret
    /\ UNCHANGED <<p_track, p_calls, p_index, p_best, p_start, p_events, p_created>>
    /\ UNCHANGED <<xvars, hvars, svars, dvars, avars, gvars, vvars, mvars, rvars, qvars>>

\* _restore_latest_backup followed by return False: agent_manager.py
\* 123-125 and 127-130, config_manager.py 154-157
PRestore ==
    /\ p_pc = "restore"
    /\ IF Backups(d_files, p_track) # {}
       THEN LET latest == Latest(d_files, d_ctime, p_track) IN
            /\ d_files' = WriteFile(d_files, live_file(p_track), d_files[latest][1])
            /\ p_events' = Append(p_events, Event("restore", "ok", d_files[latest]))
       ELSE /\ UNCHANGED d_files
            /\ p_events' = Append(p_events, Event("restore", "noop", None))
    /\ p_ret' = "False"
    /\ p_pc' = "returned"
    /\ UNCHANGED <<p_track, p_calls, p_index, p_best, p_start, p_val, p_created>>
    /\ UNCHANGED <<xvars, hvars, svars, d_ctime, d_clock, avars, gvars, vvars, mvars, rvars, qvars>>

PromoteNext ==
    \/ PCall
    \/ PBackup
    \/ PWrite
    \/ PValidate
    \/ PRestore

----------------------------------------------------------------------------
(* The advisory text and its parsers: extract_multiple_configs,            *)
(* extract_multiple_agents, apply_multi_config_optimization and            *)
(* apply_multi_agent_rewrite of llm_modifier.py                            *)

MARKV   == Tok("# VARIANT")
MARKA   == Tok("# AGENT")
FENCE   == Tok("fence")
FJSON   == Tok("fence json")
FPY     == Tok("fence python")
LBRACE  == Tok("{")
RBRACE  == Tok("}")
CLS     == Tok("class Agent:")
Pair(v) == [k |-> "pair", v |-> v]      \* "name": value of a JSON object
Stmt(v) == [k |-> "stmt", v |-> v]      \* a line of Python

\* str.strip(): blanks and line ends are white space
RECURSIVE StripWs(_)
StripWs(s) ==
    IF s = <<>> THEN s
    ELSE IF Head(s) \in {SP, NL} THEN StripWs(Tail(s))
    ELSE IF s[Len(s)] \in {SP, NL} THEN StripWs(SubSeq(s, 1, Len(s) - 1))
    ELSE s

\* line.strip().startswith(three backquotes, with or without a language)
\* (llm_modifier.py 104, 196)
IsFence(line) ==
    LET t == StripWs(line) IN
    t # <<>> /\ t[1] \in {FENCE, FJSON, FPY}

\* variant of Toggle: a fence always opens the block
AlwaysOpen(in_block) == TRUE

\* in_json_block = not in_json_block
Toggle(in_block) == ~in_block

\* llm_modifier.py 100-108, 192-200: the lines of the section that stand
\* inside a fenced block
RECURSIVE BlockLines(_, _, _)
BlockLines(lines, in_block, acc) ==
    IF lines = <<>> THEN acc
    ELSE IF IsFence(Head(lines)) THEN BlockLines(Tail(lines), Toggle(in_block), acc)
    ELSE IF in_block THEN BlockLines(Tail(lines), in_block, Append(acc, Head(lines)))
    ELSE BlockLines(Tail(lines), in_block, acc)

\* json.loads: ok and the object (the list of its members), or not ok
\* (JSONDecodeError). An object is "{", members, "}".
json_loads(text) ==
    LET w == SelectSeq(text, LAMBDA t : t \notin {SP, NL}) IN
    IF /\ Len(w) >= 2
       /\ w[1] = LBRACE
       /\ w[Len(w)] = RBRACE
       /\ \A i \in 2..(Len(w) - 1) : w[i].k = "pair"
    THEN [ok |-> TRUE, v |-> [i \in 1..(Len(w) - 2) |-> w[i + 1].v]]
    ELSE [ok |-> FALSE, v |-> <<>>]

\* llm_modifier.py 98-117: the loop over sections[1:]
RECURSIVE ConfigsOf(_, _)
ConfigsOf(sections, variants) ==
    IF sections = <<>> THEN variants
    ELSE LET json_lines == BlockLines(Split(Head(sections), <<NL>>), FALSE, <<>>)
             json_text  == StripWs(JoinLines(json_lines))
             parsed     == json_loads(json_text)
         IN  ConfigsOf(Tail(sections),
                       IF json_text # <<>> /\ parsed.ok
                       THEN Append(variants, parsed.v) ELSE variants)

extract_multiple_configs(response_text) ==
    ConfigsOf(Tail(Split(response_text, <<MARKV>>)), <<>>)

\* 'class Agent:' in code
HasAgentClass(code) == \E i \in 1..Len(code) : code[i] = CLS

\* llm_modifier.py 190-205: the loop over sections[1:]
RECURSIVE AgentsOf(_, _)
AgentsOf(sections, agents) ==
    IF sections = <<>> THEN agents
    ELSE LET code_lines == BlockLines(Split(Head(sections), <<NL>>), FALSE, <<>>)
             code       == StripWs(JoinLines(code_lines))
         IN  AgentsOf(Tail(sections),
                      IF code # <<>> /\ HasAgentClass(code)
                      THEN Append(agents, code) ELSE agents)

extract_multiple_agents(response_text) ==
    AgentsOf(Tail(Split(response_text, <<MARKA>>)), <<>>)

\* What the section of candidate i of an answer can look like
SectionKinds == {"good", "good_note", "malformed", "no_block"}

\* the candidate a well-formed section i carries
CandidateOf(track, i) ==
    IF track = "config" THEN <<i>> ELSE <<CLS, NL, Stmt(i)>>

\* the text of section i, after its separator
SectionText(track, kind, i) ==
    LET head == <<SP, Num(i), NL>> IN
    IF track = "config" THEN
        IF kind = "good" THEN
            head \o <<FJSON, NL, LBRACE, NL, SP, Pair(i), NL, RBRACE, NL, FENCE, NL>>
        ELSE IF kind = "good_note" THEN
            head \o <<SP, FENCE, NL, LBRACE, Pair(i), RBRACE, NL, FENCE, NL, JUNK, NL>>
        ELSE IF kind = "malformed" THEN
            head \o <<FJSON, NL, LBRACE, NL, Pair(i), NL, FENCE, NL>>
        ELSE head \o <<JUNK, NL>>
    ELSE
        IF kind = "good" THEN
            head \o <<FPY, NL, CLS, NL, Stmt(i), NL, FENCE, NL>>
        ELSE IF kind = "good_note" THEN
            head \o <<SP, FENCE, NL, CLS, NL, Stmt(i), NL, NL, FENCE, NL, JUNK, NL>>
        ELSE IF kind = "malformed" THEN
            head \o <<FPY, NL, Stmt(i), NL, FENCE, NL>>
        ELSE head \o <<JUNK, NL>>

\* the answer of the model: an introduction and one section per candidate
RECURSIVE ResponseFrom(_, _, _)
ResponseFrom(track, kinds, i) ==
    IF i > Len(kinds) THEN <<>>
    ELSE <<IF track = "config" THEN MARKV ELSE MARKA>>
            \o SectionText(track, kinds[i], i) \o ResponseFrom(track, kinds, i + 1)

ResponseText(track, kinds) == <<JUNK, NL>> \o ResponseFrom(track, kinds, 1)

AdviseInit ==
    /\ a_track \in {"agent", "config"}
    /\ a_kinds \in UNION { [1..n -> SectionKinds] : n \in 0..MaxSections }
    /\ a_text = ResponseText(a_track, a_kinds)
    /\ a_pc = "start"
    /\ a_list = None
    /\ a_handed = None
    /\ a_wrote = FALSE
    /\ a_ret = "none"

AdviseIdle ==
    /\ a_track = "none"
    /\ a_kinds = <<>>
    /\ a_text = <<>>
    /\ a_pc = "idle"
    /\ a_list = None
    /\ a_handed = None
    /\ a_wrote = FALSE
    /\ a_ret = "none"

\* llm_modifier.py 124-130, 212-222: the client is made, the answer is
\* asked for and parsed; an exception of these steps is caught at 162-164,
\* 247-249
AQuery ==
    /\ a_pc = "start"
    /\ \/ /\ a_list' = Some(IF a_track = "config"
                            THEN extract_multiple_configs(a_text)
                            ELSE extract_multiple_agents(a_text))
          /\ a_pc' = "extracted"
          /\ UNCHANGED a_ret
       \/ /\ a_pc' = "returned"
          /\ a_ret' = "False"
          /\ UNCHANGED a_list
    /\ UNCHANGED <<a_track, a_kinds, a_text, a_handed, a_wrote>>
    /\ UNCHANGED <<xvars, hvars, svars, dvars, pvars, gvars, vvars, mvars, rvars, qvars>>

\* llm_modifier.py 135-148, 227-232: without candidates the round is over;
\* otherwise the candidates go to the Candidate Selector as a list
AHandOver ==
    /\ a_pc = "extracted"
    /\ IF a_list[1] = <<>>
       THEN /\ a_pc' = "returned"
            /\ a_ret' = "False"
            /\ UNCHANGED a_handed
       ELSE /\ a_pc' = "selected"
            /\ a_handed' = a_list
            /\ UNCHANGED a_ret
    /\ UNCHANGED <<a_track, a_kinds, a_text, a_list, a_wrote>>
    /\ UNCHANGED <<xvars, hvars, svars, dvars, pvars, gvars, vvars, mvars, rvars, qvars>>

\* llm_modifier.py 148-164, 232-249: the selector names a winner or not,
\* the Promotion Gate writes it and keeps it or not; an exception is
\* caught and False returned
AFinish ==
    /\ a_pc = "selected"
    /\ \E best_index \in -1..(Len(a_handed[1]) - 1), success \in BOOLEAN :
         /\ a_wrote' = (best_index # -1)
         /\ a_ret' = IF best_index # -1 /\ success THEN "True" ELSE "False"
    /\ a_pc' = "returned"
    /\ UNCHANGED <<a_track, a_kinds, a_text, a_list, a_handed>>
    /\ UNCHANGED <<xvars, hvars, svars, dvars, pvars, gvars, vvars, mvars, rvars, qvars>>

AdviseNext ==
    \/ AQuery
    \/ AHandOver
    \/ AFinish

----------------------------------------------------------------------------
(* The exploration rate of the Agent of RL/agent.py under every             *)
(* configuration the Parameter Bounds admit                                 *)

\* rates the bounds are tried with, in thousandths
Rates == {10, 100, 300, 500, 900, 999, 1000}

\* the configurations whose agent parameters lie within PARAMETER_BOUNDS
BoundedAgentConfigs ==
    { [ConfigA EXCEPT !.agent.epsilon_start = es, !.agent.epsilon_min = em,
                      !.agent.epsilon_decay = ed] :
        es \in {v \in Rates : validate_parameter("epsilon_start", v, ConfigA)},
        em \in {v \in Rates : validate_parameter("epsilon_min", v, ConfigA)},
        ed \in {v \in Rates : validate_parameter("epsilon_decay", v, ConfigA)} }

EpsilonInit ==
    /\ g_config \in BoundedAgentConfigs
    /\ g_agent = None
    /\ g_prev = 0
    /\ g_n = 0

EpsilonIdle ==
    /\ g_config = ConfigA
    /\ g_agent = None
    /\ g_prev = 0
    /\ g_n = -1

\* agent = Agent(env)
GConstruct ==
    /\ g_n = 0
    /\ g_agent = None
    /\ g_agent' = Some(NewAgent(Some(g_config)))
    /\ g_prev' = g_config.agent.epsilon_start
    /\ UNCHANGED <<g_config, g_n>>
    /\ UNCHANGED <<xvars, hvars, svars, dvars, pvars, avars, vvars, mvars, rvars, qvars>>

\* agent.decay_epsilon()
GDecay ==
    /\ g_agent # None
    /\ g_n >= 0
    /\ g_n < MaxDecays
    /\ g_prev' = g_agent[1].epsilon
    /\ g_agent' = Some(decay_epsilon(g_agent[1]))
    /\ g_n' = g_n + 1
    /\ UNCHANGED g_config
    /\ UNCHANGED <<xvars, hvars, svars, dvars, pvars, avars, vvars, mvars, rvars, qvars>>

EpsilonNext ==
    \/ GConstruct
    \/ GDecay

----------------------------------------------------------------------------
(* A call of validate_parameter with a value as json.loads produces it      *)

\* A JSON value: a number ("num", with its value), the number NaN, a string
\* or null
NumV(n) == [t |-> "num", v |-> n]
NaNV    == [t |-> "nan", v |-> 0]
StrV    == [t |-> "str", v |-> 0]
NullV   == [t |-> "null", v |-> 0]

\* value < limit and value > limit of Python: TypeError between a string or
\* None and a number, False when the value is NaN
Comparable(value) == value.t \in {"num", "nan"}
Less(value, limit)    == value.t = "num" /\ value.v < limit
Greater(value, limit) == value.t = "num" /\ value.v > limit

Returned(valid, message) == [raised |-> FALSE, valid |-> valid, message |-> message]
RaisedTypeError          == [raised |-> TRUE, valid |-> FALSE, message |-> ""]

\* validate_parameter, statement by statement: what the call returns, or
\* that it raises
ValidateCall(key, value, config) ==
    IF key \notin DOMAIN PARAMETER_BOUNDS THEN Returned(FALSE, "Unknown parameter")
    ELSE LET min_val == PARAMETER_BOUNDS[key][1]
             max_val == PARAMETER_BOUNDS[key][2]
         IN  IF min_val # None /\ ~Comparable(value) THEN RaisedTypeError
             ELSE IF min_val # None /\ Less(value, min_val[1])
                  THEN Returned(FALSE, "outside bounds")
             ELSE IF max_val # None /\ ~Comparable(value) THEN RaisedTypeError
             ELSE IF max_val # None /\ Greater(value, max_val[1])
                  THEN Returned(FALSE, "outside bounds")
             ELSE IF key = "n_traps" /\ ~Comparable(value) THEN RaisedTypeError
             ELSE IF key = "n_traps" /\ Greater(value, config.environment.grid_size)
                  THEN Returned(FALSE, "too high")
             ELSE Returned(TRUE, "")

\* the keys tried: the registered ones and one that is not
TriedKeys == DOMAIN PARAMETER_BOUNDS \cup {"foo"}

\* the limits of the table
Limits ==
    { PARAMETER_BOUNDS[k][i][1] :
        k \in {j \in DOMAIN PARAMETER_BOUNDS : PARAMETER_BOUNDS[j][1] # None}, i \in {1} }
    \cup
    { PARAMETER_BOUNDS[k][i][1] :
        k \in {j \in DOMAIN PARAMETER_BOUNDS : PARAMETER_BOUNDS[j][2] # None}, i \in {2} }

\* the values tried: every limit and its two neighbours, the grid sizes of
\* the configurations, and the values that are not numbers
TriedValues ==
    { NumV(l + d) : l \in Limits \cup {c.environment.grid_size : c \in Configs},
                    d \in -MaxOff..MaxOff }
    \cup {NaNV, StrV, NullV}

NoOutcome == [raised |-> FALSE, valid |-> FALSE, message |-> "none"]

ValidateInit ==
    /\ v_key \in TriedKeys
    /\ v_value \in TriedValues
    /\ v_config \in Configs
    /\ v_pc = "call"
    /\ v_out = NoOutcome

ValidateIdle ==
    /\ v_key = "foo"
    /\ v_value = NullV
    /\ v_config = ConfigA
    /\ v_pc = "idle"
    /\ v_out = NoOutcome

\* is_valid, error_msg = validate_parameter(param, value, base_config)
VCall ==
    /\ v_pc = "call"
    /\ v_out' = ValidateCall(v_key, v_value, v_config)
    /\ v_pc' = IF v_out'.raised THEN "raised" ELSE "returned"
    /\ UNCHANGED <<v_key, v_value, v_config>>
    /\ UNCHANGED <<xvars, hvars, svars, dvars, pvars, avars, gvars, mvars, rvars, qvars>>

ValidateNext ==
    \/ VCall

----------------------------------------------------------------------------
(* The driver process: llm_rl_loop.py, its import of the Agent class and    *)
(* AgentManager.reload_agent_module                                         *)

\* the names sys.modules is asked for
ModuleNames == {"RL.agent", "agent"}

\* the agent text of candidate i promoted in cycle c; 0 is the text the
\* process started with
PromotedText(c, i) == (c - 1) * MaxCands + i + 1

\* importlib.reload(module): the module object executes its source again
\* and its names are bound anew; names bound elsewhere by
\* "from ... import" keep the objects they had
Reload(modules, name, disk) == [modules EXCEPT ![name] = Some(disk)]

\* import RL.agent as agent: the module is executed only when sys.modules
\* does not hold it yet
Import(modules, name, disk) ==
    IF modules[name] # None THEN modules ELSE [modules EXCEPT ![name] = Some(disk)]

DriverInit ==
    /\ m_pc = "boot"
    /\ m_cycle = 0
    /\ m_disk = 0
    /\ m_sys = [n \in ModuleNames |-> None]
    /\ m_Agent = -1
    /\ m_ran = None
    /\ m_promoted = None

DriverIdle ==
    /\ m_pc = "idle"
    /\ m_cycle = 0
    /\ m_disk = 0
    /\ m_sys = [n \in ModuleNames |-> None]
    /\ m_Agent = -1
    /\ m_ran = None
    /\ m_promoted = None

\* llm_rl_loop.py 7: from RL.agent import Agent, when the process starts
MImport ==
    /\ m_pc = "boot"
    /\ m_sys' = Import(m_sys, "RL.agent", m_disk)
    /\ m_Agent' = m_sys'["RL.agent"][1]
    /\ m_pc' = "train"
    /\ UNCHANGED <<m_cycle, m_disk, m_ran, m_promoted>>
    /\ UNCHANGED <<xvars, hvars, svars, dvars, pvars, avars, gvars, vvars, rvars, qvars>>

\* llm_rl_loop.py 15-45 called at 82: agent = Agent(env), with the object
\* the name Agent of the driver module is bound to
run_training ==
    /\ m_pc = "train"
    /\ m_cycle < MaxCycles
    /\ m_cycle' = m_cycle + 1
    /\ m_ran' = Some(m_Agent)
    /\ m_pc' = "decide"
    /\ UNCHANGED <<m_disk, m_sys, m_Agent, m_promoted>>
    /\ UNCHANGED <<xvars, hvars, svars, dvars, pvars, avars, gvars, vvars, rvars, qvars>>

\* llm_rl_loop.py 87-113: the advice asks for a rewrite or not; the rewrite
\* (llm_modifier.py 232-245) promotes candidate i or promotes nothing
MDecide ==
    /\ m_pc = "decide"
    /\ \/ /\ m_pc' = "train"
          /\ UNCHANGED <<m_disk, m_promoted>>
       \/ \E i \in 0..(MaxCands - 1) :
             /\ m_disk' = PromotedText(m_cycle, i)
             /\ m_promoted' = Some(m_disk')
             /\ m_pc' = "reload"
    /\ UNCHANGED <<m_cycle, m_sys, m_Agent, m_ran>>
    /\ UNCHANGED <<xvars, hvars, svars, dvars, pvars, avars, gvars, vvars, rvars, qvars>>

\* agent_manager.py 48-53, called at llm_modifier.py 242
reload_agent_module ==
    /\ m_pc = "reload"
    /\ m_sys' = IF m_sys["agent"] # None
                THEN Reload(m_sys, "agent", m_disk)
                ELSE Import(m_sys, "RL.agent", m_disk)
    /\ m_pc' = "train"
    /\ UNCHANGED <<m_cycle, m_disk, m_Agent, m_ran, m_promoted>>
    /\ UNCHANGED <<xvars, hvars, svars, dvars, pvars, avars, gvars, vvars, rvars, qvars>>

DriverNext ==
    \/ MImport
    \/ run_training
    \/ MDecide
    \/ reload_agent_module

----------------------------------------------------------------------------
(* GridWorld.reset of env.py                                                *)

\* the cells (random.randrange(self.rows), random.randrange(self.cols)) can be
Cells(size) == (0..(size - 1)) \X (0..(size - 1))

NoCell == <<-1, -1>>

\* the configurations of the environment the Parameter Bounds admit
BoundedGrids ==
    { c \in [grid_size : 1..MaxGrid, n_traps : 0..MaxGrid] :
        /\ validate_parameter("grid_size", c.grid_size, [environment |-> c])
        /\ validate_parameter("n_traps", c.n_traps, [environment |-> c]) }

\* the set a draw of _random_cell_excluding is tested against: occupied in
\* _sample_layout, {goal, *traps} in _random_unoccupied_cell
Excluded ==
    (IF r_goal = NoCell THEN {} ELSE {r_goal}) \cup {r_traps[k] : k \in 1..Len(r_traps)}

ResetInit ==
    /\ r_env \in BoundedGrids
    /\ r_pc = "goal"
    /\ r_goal = NoCell
    /\ r_traps = <<>>
    /\ r_state = NoCell
    /\ r_draws = 0

ResetIdle ==
    /\ r_env = [grid_size |-> 1, n_traps |-> 0]
    /\ r_pc = "idle"
    /\ r_goal = NoCell
    /\ r_traps = <<>>
    /\ r_state = NoCell
    /\ r_draws = 0

\* where reset goes on after the goal or a trap was placed
AfterPlacing(n) == IF n < r_env.n_traps THEN "traps" ELSE "start"

\* env.py 110-114, one pass of the loop whose draw is excluded: the loop
\* goes round again
RDrawAgain ==
    /\ r_pc \in {"goal", "traps", "start"}
    /\ \E cell \in Cells(r_env.grid_size) : cell \in Excluded
    /\ r_draws' = 1
    /\ UNCHANGED <<r_env, r_pc, r_goal, r_traps, r_state>>
    /\ UNCHANGED <<xvars, hvars, svars, dvars, pvars, avars, gvars, vvars, mvars, qvars>>

\* env.py 96-98: the draw that becomes the goal
RGoal ==
    /\ r_pc = "goal"
    /\ \E cell \in Cells(r_env.grid_size) \ Excluded :
          /\ r_goal' = cell
          /\ r_pc' = AfterPlacing(0)
    /\ r_draws' = 0
    /\ UNCHANGED <<r_env, r_traps, r_state>>
    /\ UNCHANGED <<xvars, hvars, svars, dvars, pvars, avars, gvars, vvars, mvars, qvars>>

\* env.py 100-104: the draw that becomes the next trap
RTrap ==
    /\ r_pc = "traps"
    /\ \E cell \in Cells(r_env.grid_size) \ Excluded :
          /\ r_traps' = Append(r_traps, cell)
          /\ r_pc' = AfterPlacing(Len(r_traps'))
    /\ r_draws' = 0
    /\ UNCHANGED <<r_env, r_goal, r_state>>
    /\ UNCHANGED <<xvars, hvars, svars, dvars, pvars, avars, gvars, vvars, mvars, qvars>>

\* env.py 35-36 and 106-108: the draw that becomes the start state
RStart ==
    /\ r_pc = "start"
    /\ \E cell \in Cells(r_env.grid_size) \ Excluded :
          /\ r_state' = cell
          /\ r_pc' = "returned"
    /\ r_draws' = 0
    /\ UNCHANGED <<r_env, r_goal, r_traps>>
    /\ UNCHANGED <<xvars, hvars, svars, dvars, pvars, avars, gvars, vvars, mvars, qvars>>

ResetNext ==
    \/ RDrawAgain
    \/ RGoal
    \/ RTrap
    \/ RStart

----------------------------------------------------------------------------
(* generate_config_variants on every base configuration within the          *)
(* Parameter Bounds                                                         *)

\* every parameter of the configuration passes validate_parameter against
\* the configuration itself
InBounds(config) ==
    \A key \in DOMAIN PARAMETER_BOUNDS :
        validate_parameter(key, Flatten(config)[key], config)

\* base configurations: the documents tried that are within the bounds
BaseConfigs ==
    { c \in { Config(gs, nt, -100, -1000, 1000, 100, 50) : gs \in {3, 5}, nt \in {0, 3, 4} } :
        InBounds(c) }

Change(param, value) == [param |-> param, value |-> value]

\* single changes an answer can ask for: inside and outside the bounds,
\* of every category, and of an unknown parameter
SingleChanges ==
    { Change("grid_size", 3), Change("n_traps", 4), Change("n_traps", 9),
      Change("learning_rate", 200), Change("episodes", 2000), Change("foo", 1) }

\* the items of one param_changes, in the order of the JSON object
ParamChanges ==
    { <<c>> : c \in SingleChanges }
    \cup { <<Change("grid_size", gs), c>> : gs \in {3, 6}, c \in SingleChanges }

ParamChangesLists ==
    UNION { [1..n -> ParamChanges] : n \in 0..MaxVariants }

\* focus_area as llm_rl_loop.py passes it, and one that is neither
FocusAreas == {"agent", "training", "environment"}

\* the memory before the call: the base configuration and nothing else
HeapOf(base) == [r \in Refs |-> IF r = base_config THEN Some(base) ELSE None]

VariantsInit ==
    /\ q_base \in BaseConfigs
    /\ q_list \in ParamChangesLists
    /\ q_focus \in FocusAreas
    /\ q_pc = "call"
    /\ q_variants = <<>>

VariantsIdle ==
    /\ q_base = ConfigA
    /\ q_list = <<>>
    /\ q_focus = "none"
    /\ q_pc = "idle"
    /\ q_variants = <<>>

\* config_variants = generate_config_variants(base_config,
\* param_changes_list, focus_area): the list returned
QGenerate ==
    /\ q_pc = "call"
    /\ \E heap \in {generate_config_variants(HeapOf(q_base), q_list, q_focus)} :
          q_variants' = [i \in 1..Len(q_list) |-> heap[NewObject(base_config, i - 1)][1]]
    /\ q_pc' = "returned"
    /\ UNCHANGED <<q_base, q_list, q_focus>>
    /\ UNCHANGED <<xvars, hvars, svars, dvars, pvars, avars, gvars, vvars, mvars, rvars>>

VariantsNext ==
    \/ QGenerate

----------------------------------------------------------------------------
(* Specifications *)

InitExec    == ExecInit /\ HarnessIdle /\ SelIdle /\ DiskIdle /\ PromoteIdle /\ AdviseIdle /\ EpsilonIdle /\ ValidateIdle /\ DriverIdle /\ ResetIdle /\ VariantsIdle
InitHarness == HarnessInit /\ ExecIdle /\ SelIdle /\ DiskIdle /\ PromoteIdle /\ AdviseIdle /\ EpsilonIdle /\ ValidateIdle /\ DriverIdle /\ ResetIdle /\ VariantsIdle
InitSelect  == SelInit /\ ExecIdle /\ HarnessIdle /\ PromoteIdle /\ AdviseIdle /\ EpsilonIdle /\ ValidateIdle /\ DriverIdle /\ ResetIdle /\ VariantsIdle
InitPromote == PromoteInit /\ ExecIdle /\ HarnessIdle /\ SelIdle /\ AdviseIdle /\ EpsilonIdle /\ ValidateIdle /\ DriverIdle /\ ResetIdle /\ VariantsIdle
InitAdvise  == AdviseInit /\ ExecIdle /\ HarnessIdle /\ SelIdle /\ DiskIdle /\ PromoteIdle /\ EpsilonIdle /\ ValidateIdle /\ DriverIdle /\ ResetIdle /\ VariantsIdle
InitEpsilon == EpsilonInit /\ ExecIdle /\ HarnessIdle /\ DiskIdle /\ SelIdle /\ PromoteIdle /\ AdviseIdle /\ ValidateIdle /\ DriverIdle /\ ResetIdle /\ VariantsIdle
InitValidate == ValidateInit /\ ExecIdle /\ HarnessIdle /\ DiskIdle /\ SelIdle /\ PromoteIdle /\ AdviseIdle /\ EpsilonIdle /\ DriverIdle /\ ResetIdle /\ VariantsIdle
InitDriver == DriverInit /\ ExecIdle /\ HarnessIdle /\ DiskIdle /\ SelIdle /\ PromoteIdle /\ AdviseIdle /\ EpsilonIdle /\ ValidateIdle /\ ResetIdle /\ VariantsIdle
InitReset == ResetInit /\ ExecIdle /\ HarnessIdle /\ DiskIdle /\ SelIdle /\ PromoteIdle /\ AdviseIdle /\ EpsilonIdle /\ ValidateIdle /\ DriverIdle /\ VariantsIdle
InitVariants == VariantsInit /\ ExecIdle /\ HarnessIdle /\ DiskIdle /\ SelIdle /\ PromoteIdle /\ AdviseIdle /\ EpsilonIdle /\ ValidateIdle /\ DriverIdle /\ ResetIdle

SpecExec    == InitExec /\ [][ExecNext]_vars
SpecHarness == InitHarness /\ [][HarnessNext]_vars
SpecSelect  == InitSelect /\ [][SelNext]_vars
SpecPromote == InitPromote /\ [][PromoteNext]_vars
SpecAdvise  == InitAdvise /\ [][AdviseNext]_vars
SpecEpsilon == InitEpsilon /\ [][EpsilonNext]_vars
SpecValidate == InitValidate /\ [][ValidateNext]_vars
SpecDriver == InitDriver /\ [][DriverNext]_vars
SpecReset == InitReset /\ [][ResetNext]_vars
SpecVariants == InitVariants /\ [][VariantsNext]_vars

----------------------------------------------------------------------------
(* Claims about the Isolated Executor, checked under SpecExec *)

StdoutLines == Split(x_child.out, <<NL>>)

\* a line on which the parser converts both numbers
FullyParsed(line) ==
    /\ StartsWith(line, <<RES>>)
    /\ ParseLine(line, <<SENTINEL_AVG, SENTINEL_SR>>).brk

PairOf(line) == ParseLine(line, <<SENTINEL_AVG, SENTINEL_SR>>).acc

ObtainedResultLine ==
    /\ x_child.kind = "exit"
    /\ \E i \in 1..Len(StdoutLines) : FullyParsed(StdoutLines[i])

ReturnedSentinel ==
    /\ x_ret.avg_return = SENTINEL_AVG
    /\ x_ret.success_rate = SENTINEL_SR

\* C1: for every outcome of the child process (normal exit, crash, timeout,
\* failure to launch, missing or malformed output) the executor returns a
\* metrics mapping and does not raise, and whenever no well-formed RESULTS
\* line was obtained the mapping is exactly avg_return = -999.0,
\* success_rate = 0.0.
C1_AlwaysMetricsSentinelOnFailure ==
    x_child # NoChild =>
        /\ x_pc = "returned"
        /\ x_ret # NoRet
        /\ ~ObtainedResultLine => ReturnedSentinel

\* C2: the parsed result is all-or-nothing: it is either both numbers of one
\* fully well-formed RESULTS line of the captured stdout, or exactly
\* (-999.0, 0.0); avg_return is never taken from a line whose success_rate
\* field is missing or unparsable.
C2_ParseAllOrNothing ==
    (x_pc = "returned" /\ x_child.kind = "exit") =>
        \/ ReturnedSentinel
        \/ \E i \in 1..Len(StdoutLines) :
              /\ FullyParsed(StdoutLines[i])
              /\ PairOf(StdoutLines[i]) = <<x_ret.avg_return, x_ret.success_rate>>

\* C3: if the child exits with a non-zero status the executor returns the
\* failure sentinel, even when its stdout holds a well-formed RESULTS line
\* with a non-sentinel score (stated for the stdouts whose RESULTS lines are
\* all well-formed, the case the claim singles out).
C3_NonZeroExitIsSentinel ==
    ( /\ x_pc = "returned"
      /\ x_child.kind = "exit"
      /\ x_child.code # 0
      /\ \A i \in 1..Len(StdoutLines) :
            StartsWith(StdoutLines[i], <<RES>>) => FullyParsed(StdoutLines[i]) )
    => ReturnedSentinel

\* C21: on every exit path of _execute_test_script (result parsed, timeout,
\* exception while launching or running the process, exception while
\* writing the program text) the temporary program file of the evaluation
\* no longer exists when the function returns or raises.
C21_TempFileRemovedOnExit ==
    x_pc \in {"returned", "raised"} => ~x_tmp

----------------------------------------------------------------------------
(* Claims about the generated program, checked under SpecHarness *)

ResultLinesOf(out) ==
    LET ls == Split(out, <<NL>>) IN
    SelectSeq(ls, LAMBDA l : StartsWith(l, <<RES>>))

\* C4: every execution of a generated program prints exactly one line
\* starting with "RESULTS:" before it exits, whichever step fails (loading
\* the configuration, loading the agent file, importing the environment,
\* constructing the agent, running an episode); on a failure that line is
\* the sentinel line and the exit status is non-zero.
C4_ExactlyOneResultLine ==
    h_pc = "exited" =>
        /\ Len(ResultLinesOf(h_stdout)) = 1
        /\ h_fail # "none" =>
              /\ ResultLinesOf(h_stdout)[1] = ResultLine(SENTINEL_AVG, SENTINEL_SR)
              /\ h_code # 0

\* C5: with a configuration supplied to the harness, two executions of the
\* same program under two different live configurations yield the same
\* metrics (stated for two live configurations that both exist).
C5_SuppliedConfigDecidesMetrics ==
    ( /\ h_pc = "finished"
      /\ h_script.test_config # None
      /\ h_amb.live[1] # None
      /\ h_amb.live[2] # None )
    => ExecuteResult(h_out[1], "Test") = ExecuteResult(h_out[2], "Test")

\* C23: for a fixed candidate, configuration and episode count (the
\* configuration is the supplied one, or the live one when none is supplied
\* and then the same in both executions), two executions of the evaluation
\* return the same avg_return and success_rate.
C23_SeededRunsAgree ==
    ( /\ h_pc = "finished"
      /\ h_script.test_config = None => h_amb.live[1] = h_amb.live[2] )
    => ExecuteResult(h_out[1], "Test") = ExecuteResult(h_out[2], "Test")

----------------------------------------------------------------------------
(* Claims about the Candidate Selector, checked under SpecSelect *)

Tested(k) == s_log[k].how = "tested"

\* the index of the last accepted entry of the log, -1 if there is none
LastAccepted(log) ==
    LET A == {k \in 1..Len(log) : log[k].accepted} IN
    IF A = {} THEN -1
    ELSE log[CHOOSE k \in A : \A j \in A : j <= k].i

\* the running best before entry k, recomputed from the baseline and the
\* accepted entries before k
RECURSIVE BestBefore(_)
BestBefore(k) ==
    IF k = 1 THEN s_original.avg_return
    ELSE IF s_log[k - 1].accepted THEN s_log[k - 1].metrics.avg_return
    ELSE BestBefore(k - 1)

RunningBestIsLastAccepted ==
    /\ \A k \in 1..Len(s_log) : s_log[k].before = BestBefore(k)
    /\ s_pc = "loop" => s_best_index = LastAccepted(s_log)
    /\ s_pc = "returned" /\ s_log # <<>> => s_ret.index = LastAccepted(s_log)

C8_SentinelNeverSelected ==
    /\ \A k \in 1..Len(s_log) :
          (Tested(k) /\ s_log[k].metrics.avg_return = SENTINEL_AVG) => ~s_log[k].accepted
    /\ (s_pc = "returned" /\ s_ret.index >= 0) =>
          s_ret.metrics.avg_return # SENTINEL_AVG

\* C9: whenever an index i >= 0 is returned, the returned metrics are those
\* measured for candidate i in this round and their avg_return is strictly
\* greater than the avg_return measured for the baseline.
C9_WinnerBeatsBaseline ==
    (s_pc = "returned" /\ s_ret.index >= 0) =>
        /\ s_ret.metrics = s_log[s_ret.index + 1].metrics
        /\ s_ret.metrics.avg_return > s_original.avg_return

AllVisitedInOrder ==
    /\ Len(s_log) = s_n
    /\ \A k \in 1..Len(s_log) : s_log[k].i = k - 1
    /\ s_ret.index = LastAccepted(s_log)

\* C10 as claimed: for every list of candidates and every subset of failing
\* candidates the selector evaluates every candidate once, in order, and a
\* later candidate can still win.
C10_AllCandidatesEvaluated ==
    s_pc = "returned" => AllVisitedInOrder

\* C10 as amended: the same, unless the round is a configuration round whose
\* baseline failed (avg_return <= -999), which returns before any candidate.
C10_AllEvaluatedUnlessBaselineFailed ==
    ( /\ s_pc = "returned"
      /\ ~(s_track = "config" /\ s_original.avg_return <= SENTINEL_AVG) )
    => AllVisitedInOrder

C10_Witness ==
    /\ s_pc = "returned"
    /\ s_n = 3
    /\ Len(s_log) = 3
    /\ s_log[2].how = "raised"
    /\ s_ret.index = 2

\* C11: in the configuration track, if the baseline evaluation returns
\* avg_return <= -999, test_multiple_configs returns (-1, baseline metrics)
\* and no variant has been staged in the scratch directory or evaluated.
C11_FailedBaselineReturnsAtOnce ==
    (s_track = "config" /\ s_original.avg_return <= SENTINEL_AVG) =>
        /\ s_pc = "returned"
        /\ s_ret = [index |-> -1, metrics |-> s_original]
        /\ s_log = <<>>
        /\ \A i \in 0..(s_n - 1) : d_files[variant_file(i)] = None

C11_Witness ==
    /\ s_track = "config"
    /\ s_n = MaxCands
    /\ s_pc = "returned"
    /\ s_original.avg_return = SENTINEL_AVG
    /\ s_ret.index = -1

\* C12: once a candidate has been accepted as the running best, a later
\* candidate whose avg_return equals the running best's avg_return never
\* replaces it, in both tracks and for every sign of the score; the index
\* returned is that of the earlier candidate.
C12_EqualNeverReplaces ==
    /\ \A k \in 1..Len(s_log) :
          ( /\ Tested(k)
            /\ \E j \in 1..(k - 1) : s_log[j].accepted
            /\ s_log[k].metrics.avg_return = s_log[k].before )
          => ~s_log[k].accepted
    /\ ( /\ s_pc = "returned"
         /\ Len(s_log) = 2
         /\ s_log[1].accepted
         /\ Tested(2)
         /\ s_log[2].metrics.avg_return = s_log[1].metrics.avg_return )
       => s_ret.index = s_log[1].i

\* the improvement test of the track, with reference avg_return ref
MeetsRule(track, m, ref) ==
    IF track = "agent" THEN m.avg_return * 10 > ref * 11
    ELSE m.avg_return > SENTINEL_AVG /\ m.avg_return > ref + 50

\* C13 as claimed: the improvement test of every candidate uses the original
\* baseline metrics as its reference, not the metrics of a candidate
\* accepted earlier in the round.
C13_ReferenceIsOriginalBaseline ==
    \A k \in 1..Len(s_log) :
        Tested(k) =>
            (s_log[k].accepted <=> MeetsRule(s_track, s_log[k].metrics, s_original.avg_return))

\* C13 as amended: the reference of the improvement test is the running
\* best, which is the original baseline until a candidate is accepted and
\* from then on the candidate accepted last; the original baseline metrics
\* themselves are captured once and stay as measured.
C13_ReferenceIsRunningBest ==
    /\ \A k \in 1..Len(s_log) :
          /\ s_log[k].before = BestBefore(k)
          /\ Tested(k) =>
                (s_log[k].accepted <=> MeetsRule(s_track, s_log[k].metrics, BestBefore(k)))
    /\ s_pc = "loop" =>
          s_best.avg_return = BestBefore(Len(s_log) + 1)

C13_Witness ==
    /\ s_track = "config"
    /\ s_pc = "returned"
    /\ s_original.avg_return = 1000
    /\ Len(s_log) = 2
    /\ s_log[1].metrics.avg_return = 1060 /\ s_log[1].accepted
    /\ s_log[2].metrics.avg_return = 1060 /\ ~s_log[2].accepted
    /\ s_ret.index = 0

\* C17: when test_multiple_agents or test_multiple_configs returns, on every
\* return path and for every initial content of the scratch directory
\* (residue of an earlier crashed round included), the scratch directory
\* holds no candidate_*.py / variant_*.json file and, in the agent track, no
\* __pycache__ directory.
C17_ScratchDrainedOnReturn ==
    s_pc = "returned" =>
        IF s_track = "agent"
        THEN /\ Glob(d_files, "RL/temp_agents", "candidate") = {}
             /\ d_files[pycache_dir] = None
        ELSE Glob(d_files, "config/temp_configs", "variant") = {}

\* what an evaluation round is to leave alone: the live agent file, the
\* live configuration file, the configuration object in memory and the
\* history directories
Baseline ==
    << d_files[agent_file], d_files[config_file], s_heap[base_config],
       [p \in HistoryPaths |-> d_files[p]], d_ctime >>

\* C19: during an evaluation round (generate_config_variants,
\* test_multiple_agents, test_multiple_configs) the live agent file, the
\* live configuration file, the in-memory baseline configuration object and
\* the history directories are left unchanged by every step.
C19_RoundLeavesBaselineUnchanged == [][Baseline' = Baseline]_vars

C19_Witness ==
    /\ s_track = "config"
    /\ s_pc = "returned"
    /\ s_n = MaxCands
    /\ s_ret.index = 1
    /\ s_heap[0] # s_heap[base_config]
    /\ Glob(d_files, "config/temp_configs", "variant") = {}
    /\ d_files[config_file] = Some(ConfigA)
    /\ s_heap[base_config] = Some(ConfigA)

----------------------------------------------------------------------------
(* Claims about the Version Store and the Promotion Gate, checked under    *)
(* SpecPromote                                                             *)

\* an event of the call that put new content in the live artifact
Overwrites(e) == e.op \in {"write", "restore"} /\ e.res # "noop"

\* C14: in every execution of save_best_agent and save_best_config,
\* including those in which the backup or the write raises, every overwrite
\* of the live artifact (by the candidate write or by a restore) is preceded
\* within that call by a backup that completed successfully and captured
\* the live artifact as it was when the call started (stated for the calls
\* that start with a live artifact, which have something to overwrite).
C14_BackupPrecedesOverwrite ==
    p_start # None =>
        \A k \in 1..Len(p_events) :
            Overwrites(p_events[k]) =>
                \E j \in 1..(k - 1) :
                    /\ p_events[j].op = "backup"
                    /\ p_events[j].res = "ok"
                    /\ p_events[j].text = p_start

\* the call wrote the winning candidate to the live file
WroteWinner ==
    \E k \in 1..Len(p_events) : p_events[k].op = "write" /\ p_events[k].res = "ok"

C16_HistoryAppendOnly ==
    \A e \in p_created : d_files[e.path] = Some(e.text)

\* the call overwrote the live artifact and its restore found no entry
RollbackFoundNoHistory ==
    /\ p_pc = "returned"
    /\ \E k \in 1..Len(p_events) : p_events[k].op = "write" /\ Overwrites(p_events[k])
    /\ p_events[Len(p_events)] = Event("restore", "noop", None)

\* C18: every round ends in one of three reported states, baseline
\* retained, baseline replaced or fatal inconsistency; if a rollback is
\* required and no history entry is available to restore, the round ends in
\* the fatal-inconsistency state, which the caller can tell from baseline
\* retained (the report of baseline retained is the return value False).
C18_RollbackFailureIsReported ==
    RollbackFoundNoHistory => p_ret \notin {"True", "False"}

\* the text lacks the class Agent or one of the three capability methods
LacksStructure(text) ==
    \/ ~text.cls
    \/ "select_action" \notin text.methods
    \/ "learn" \notin text.methods
    \/ "decay_epsilon" \notin text.methods

\* C20: if the candidate written to the live agent file does not define a
\* class named Agent, or the class lacks any of select_action, learn or
\* decay_epsilon, validate_agent_code returns False without starting the
\* one-episode run, and save_best_agent then restores the latest backup and
\* returns False.
C20_StructureRejectedWithoutRun ==
    ( /\ p_track = "agent"
      /\ p_pc \in {"restore", "returned"}
      /\ WroteWinner
      /\ LacksStructure(p_best[1]) )
    => /\ p_val = [result |-> "False", demo |-> FALSE, avg |-> 0]
       /\ p_pc = "returned" =>
             /\ p_ret = "False"
             /\ p_events[Len(p_events)].op = "restore"
             /\ Backups(d_files, "agent") # {} =>
                   d_files[agent_file] = d_files[Latest(d_files, d_ctime, "agent")]

C20_Witness ==
    /\ p_track = "agent"
    /\ p_pc = "returned"
    /\ WroteWinner
    /\ p_best = Some(AgentText(2, TRUE, {"select_action", "decay_epsilon"}))
    /\ p_val = [result |-> "False", demo |-> FALSE, avg |-> 0]
    /\ p_ret = "False"
    /\ p_start = Some(OriginalAgent)
    /\ d_files[agent_file] = Some(OriginalAgent)

----------------------------------------------------------------------------
(* Claims on the advisory text *)

\* the candidates of the well-formed sections, in the order of the answer
RECURSIVE WellFormed(_, _, _)
WellFormed(track, kinds, i) ==
    IF i > Len(kinds) THEN <<>>
    ELSE (IF kinds[i] \in {"good", "good_note"}
          THEN <<CandidateOf(track, i)>> ELSE <<>>)
         \o WellFormed(track, kinds, i + 1)

\* C22: a malformed candidate of the advisory text (JSON that does not
\* parse, a code block without 'class Agent:') is the only one dropped: the
\* candidates extracted, and handed to the selector, are the well-formed
\* ones in their order in the answer; when none remains the round returns
\* False without handing anything to the selector and without writing the
\* live artifact.
C22_MalformedCandidateDropped ==
    /\ a_list # None => a_list[1] = WellFormed(a_track, a_kinds, 1)
    /\ a_handed # None =>
          /\ a_handed[1] = WellFormed(a_track, a_kinds, 1)
          /\ a_handed[1] # <<>>
    /\ (a_pc = "returned" /\ WellFormed(a_track, a_kinds, 1) = <<>>) =>
          /\ a_ret = "False"
          /\ a_handed = None
          /\ ~a_wrote

C22_Witness ==
    /\ a_pc = "returned"
    /\ a_track = "config"
    /\ a_kinds = <<"good", "malformed", "good_note">>
    /\ a_handed = Some(<< <<1>>, <<3>> >>)

----------------------------------------------------------------------------
(* Claims about the exploration rate, checked under SpecEpsilon *)

\* C24: for every configuration whose agent parameters lie within the
\* Parameter Bounds, epsilon never increases across the calls of
\* decay_epsilon, starting from epsilon_start, and is never below
\* epsilon_min.
C24_EpsilonDecreasesToFloor ==
    g_agent # None =>
        /\ g_agent[1].epsilon <= g_prev
        /\ g_agent[1].epsilon >= g_agent[1].epsilon_min

----------------------------------------------------------------------------
(* Claims about validate_parameter, checked under SpecValidate *)

\* the key is registered and the value lies within its closed interval (no
\* limit where the table holds None), for n_traps also at or below the
\* grid_size of the configuration
WithinBounds(key, value, config) ==
    /\ key \in DOMAIN PARAMETER_BOUNDS
    /\ PARAMETER_BOUNDS[key][1] # None =>
           value.t = "num" /\ value.v >= PARAMETER_BOUNDS[key][1][1]
    /\ PARAMETER_BOUNDS[key][2] # None =>
           value.t = "num" /\ value.v <= PARAMETER_BOUNDS[key][2][1]
    /\ key = "n_traps" =>
           value.t = "num" /\ value.v <= config.environment.grid_size

\* C25: validate_parameter never raises; it returns valid exactly when the
\* key is registered and the value is within the closed interval, n_traps
\* also at or below grid_size; otherwise it returns invalid with a message
\* that is not empty.
C25_ValidExactlyWithinBounds ==
    v_pc # "call" =>
        /\ v_pc = "returned"
        /\ v_out.valid <=> WithinBounds(v_key, v_value, v_config)
        /\ ~v_out.valid => v_out.message # ""

----------------------------------------------------------------------------
(* Claims about the return value of save_best_agent and save_best_config,   *)
(* checked under SpecPromote                                                *)

\* no step of the call in progress raised
NothingRaised == \A k \in 1..Len(p_events) : p_events[k].res # "raised"

\* C26: save_best_agent returns True exactly when best_index is not -1,
\* neither the backup nor the write raised, the candidate passed the
\* structural check and the one-episode run returned an avg_return above
\* -999; whenever it returns True the live agent file holds
\* agent_codes[best_index].
C26_TrueExactlyWhenValidated ==
    (p_track = "agent" /\ p_pc = "returned") =>
        /\ p_ret = "True" <=>
              /\ p_index # -1
              /\ NothingRaised
              /\ p_val.demo
              /\ p_val.avg > SENTINEL_AVG
        /\ p_ret = "True" =>
              /\ d_files[agent_file] = p_best
              /\ HasStructure(p_best[1])

C26_Witness ==
    /\ p_track = "agent"
    /\ p_pc = "returned"
    /\ p_ret = "True"
    /\ p_val.avg = 900
    /\ d_files[agent_file] = Some(AgentText(0, TRUE, required_methods))

\* C28: whenever save_best_agent or save_best_config returns False (the
\* baseline won, the backup raised, the write raised, the validation
\* failed), the live artifact is what it was when the call started, whatever
\* the history held before.
C28_FalseLeavesLiveUntouched ==
    (p_pc = "returned" /\ p_ret = "False") =>
        d_files[live_file(p_track)] = p_start

----------------------------------------------------------------------------
(* Claims about the driver process, checked under SpecDriver *)

\* C27: after a successful agent promotion followed by
\* reload_agent_module, the next training cycle of the driver constructs
\* and runs the promoted agent text, not the class loaded when the process
\* started.
C27_NextCycleRunsPromotedAgent ==
    (m_pc = "decide" /\ m_promoted # None) => m_ran = m_promoted

----------------------------------------------------------------------------
(* Claims about GridWorld.reset, checked under SpecReset *)

\* C29: for every configuration within the Parameter Bounds, reset
\* terminates: whenever it draws a cell, a cell that ends the loop exists
\* (and is drawn with positive probability); the start cell it returns is
\* inside the grid and is neither the goal nor a trap, and the goal and the
\* traps are pairwise distinct.
C29_ResetTerminatesOnFreeCell ==
    /\ r_pc \in {"goal", "traps", "start"} =>
          Cells(r_env.grid_size) \ Excluded # {}
    /\ r_pc = "returned" =>
          /\ r_state \in Cells(r_env.grid_size)
          /\ r_state \notin Excluded
          /\ Len(r_traps) = r_env.n_traps
          /\ Cardinality(Excluded) = 1 + r_env.n_traps

----------------------------------------------------------------------------
(* Claims about generate_config_variants, checked under SpecVariants *)

\* the variant equals the base outside the category
DiffersOnlyIn(variant, base, category) ==
    \A c \in DOMAIN base : c # category => variant[c] = base[c]

\* C30: for every base configuration within the Parameter Bounds, every
\* list of changes and every focus area, each variant returned by
\* generate_config_variants satisfies the table, n_traps at or below the
\* grid_size of the variant itself; with focus "agent" (resp. "training") a
\* variant differs from the base only in agent (resp. training) parameters.
C30_VariantsWithinBounds ==
    q_pc = "returned" =>
        \A i \in 1..Len(q_variants) :
            /\ InBounds(q_variants[i])
            /\ q_focus = "agent" => DiffersOnlyIn(q_variants[i], q_base, "agent")
            /\ q_focus = "training" => DiffersOnlyIn(q_variants[i], q_base, "training")

====
